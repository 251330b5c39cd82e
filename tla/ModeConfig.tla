---------------------------- MODULE ModeConfig ----------------------------
(***************************************************************************)
(* The mode_config aggregate as planes and CRTCs see it: one id space     *)
(* (crtc_idr) shared by CRTCs, framebuffers and planes, the plane_list    *)
(* with its num_plane count, and the CRTC gamma ramps of Gamma, reached   *)
(* by id.                                                                  *)
(*                                                                         *)
(* drm_plane.c: a driver registers planes with drm_plane_init (an id,     *)
(* then the format_types copy; a private plane gets an id but is kept off *)
(* plane_list) and removes them with drm_plane_cleanup.  Userspace finds  *)
(* planes by id (SETPLANE), lists them (GETPLANE_RES) and removes          *)
(* framebuffers (RMFB), whose drm_framebuffer_remove walks plane_list and *)
(* drm_plane_force_disable's every plane showing the framebuffer.  Every  *)
(* one of these runs under drm_modeset_lock_all, or, for SETPLANE's and   *)
(* RMFB's lookups, in an idr_mutex section; the race between SETPLANE's   *)
(* early lookup and RMFB is FbLifecycle's subject, so here each call is   *)
(* one step.  A plane's crtc pointer, formats and geometry are left out:  *)
(* a failing format or geometry check changes nothing.                    *)
(***************************************************************************)
EXTENDS Naturals, Sequences, SequencesExt, FiniteSets

CONSTANTS Planes,       \* plane structs a driver can register
          FBs,          \* framebuffers, registered before any plane
          StaticId,     \* the ids of the CRTCs and framebuffers
          MaxId,        \* size of the id space
          None,         \* NULL / empty idr slot
          AllocCanFail, \* whether idr_pre_get and kmalloc may fail
          PrivCanBe,    \* whether a driver registers private planes
          \* the constants of Gamma
          Crtcs, HasGammaSet, Size, Tables, Zero, NoStore, Unset, CopyCanFault

ASSUME /\ StaticId \in [Crtcs \cup FBs -> 1..MaxId]
       /\ AllocCanFail \in BOOLEAN /\ PrivCanBe \in BOOLEAN

VARIABLES
    idr,         \* mode_config.crtc_idr
    planeId,     \* plane->base.id (0 until drm_mode_object_get sets it)
    planeState,  \* "unused", "failed" (init returned an error), "listed",
                 \* "private", "cleaned"
    planeList,   \* mode_config.plane_list, in insertion order
    numPlane,    \* mode_config.num_plane
    formats,     \* planes whose format_types array is allocated
    planeFb,     \* plane->fb
    fbLive,      \* framebuffers RMFB has not removed
    resp,        \* the last GETPLANE_RES: the caller's count_planes and
                 \* how many ids put_user wrote
    gammaSize, store, hw, user   \* Gamma's

planeVars == <<idr, planeId, planeState, planeList, numPlane, formats,
               planeFb, fbLive, resp>>
gammaVars == <<gammaSize, store, hw, user>>
vars == <<planeVars, gammaVars>>

G == INSTANCE Gamma
MO == INSTANCE ModeObject WITH NoObj <- None

\* The id field of every object in the idr.
ObjId == [o \in Crtcs \cup FBs \cup Planes |->
            IF o \in Planes THEN planeId[o] ELSE StaticId[o]]

\* The ids a caller can pass.
IdArgs == 0..MaxId

\* drm_mode_object_find with the plane or CRTC type; __drm_framebuffer_lookup.
FindPlane(id) == MO!ObjectFind(idr, ObjId, id, Planes)
FindCrtc(id) == MO!ObjectFind(idr, ObjId, id, Crtcs)
LookupFb(id) == MO!ObjectFind(idr, ObjId, id, FBs)

\* The planes a driver has registered and not cleaned up.
Registered == {p \in Planes : planeState[p] \in {"listed", "private"}}

-----------------------------------------------------------------------------
(* drm_plane_init under lock_all: drm_mode_object_get (fails on           *)
(* idr_pre_get ENOMEM or a full id space), then kmalloc of format_types,  *)
(* whose failure puts the id back (plane->base.id keeps it); a private    *)
(* plane is left off plane_list.                                           *)
\* Bug variant: the kmalloc failure path does not put the id back.
PlaneInitNoPut(p, priv) ==
    LET id == MO!NewId(idr) IN
    /\ planeState[p] = "unused"
    /\ priv \in IF PrivCanBe THEN BOOLEAN ELSE {FALSE}
    /\ \/ /\ ~MO!CanGetId(idr) \/ AllocCanFail
          /\ planeState' = [planeState EXCEPT ![p] = "failed"]
          /\ UNCHANGED <<idr, planeId, planeList, numPlane, formats>>
       \/ /\ MO!CanGetId(idr) /\ AllocCanFail
          /\ planeId' = [planeId EXCEPT ![p] = id]
          /\ idr' = MO!ObjectGet(idr, p)
          /\ planeState' = [planeState EXCEPT ![p] = "failed"]
          /\ UNCHANGED <<planeList, numPlane, formats>>
       \/ /\ MO!CanGetId(idr)
          /\ idr' = MO!ObjectGet(idr, p)
          /\ planeId' = [planeId EXCEPT ![p] = id]
          /\ formats' = formats \cup {p}
          /\ IF priv
             THEN /\ planeState' = [planeState EXCEPT ![p] = "private"]
                  /\ UNCHANGED <<planeList, numPlane>>
             ELSE /\ planeState' = [planeState EXCEPT ![p] = "listed"]
                  /\ planeList' = Append(planeList, p)
                  /\ numPlane' = numPlane + 1

PlaneInit(p, priv) ==
    LET id == MO!NewId(idr) IN
    /\ planeState[p] = "unused"
    /\ priv \in IF PrivCanBe THEN BOOLEAN ELSE {FALSE}
    /\ \/ /\ ~MO!CanGetId(idr) \/ AllocCanFail
          /\ planeState' = [planeState EXCEPT ![p] = "failed"]
          /\ UNCHANGED <<idr, planeId, planeList, numPlane, formats>>
       \/ /\ MO!CanGetId(idr) /\ AllocCanFail
          /\ planeId' = [planeId EXCEPT ![p] = id]
          /\ planeState' = [planeState EXCEPT ![p] = "failed"]
          /\ UNCHANGED <<idr, planeList, numPlane, formats>>
       \/ /\ MO!CanGetId(idr)
          /\ idr' = MO!ObjectGet(idr, p)
          /\ planeId' = [planeId EXCEPT ![p] = id]
          /\ formats' = formats \cup {p}
          /\ IF priv
             THEN /\ planeState' = [planeState EXCEPT ![p] = "private"]
                  /\ UNCHANGED <<planeList, numPlane>>
             ELSE /\ planeState' = [planeState EXCEPT ![p] = "listed"]
                  /\ planeList' = Append(planeList, p)
                  /\ numPlane' = numPlane + 1

\* Bug variant: the list_empty test is dropped, so a private plane's
\* cleanup decrements num_plane too.
PlaneCleanupAlwaysDel(p) ==
    /\ planeState[p] \in {"listed", "private"}
    /\ formats' = formats \ {p}
    /\ idr' = MO!ObjectPut(idr, planeId[p])
    /\ planeList' = Remove(planeList, p)
    /\ numPlane' = numPlane - 1
    /\ planeState' = [planeState EXCEPT ![p] = "cleaned"]

(* drm_plane_cleanup under lock_all: free format_types, put the id, and   *)
(* unlink the plane when it is on a list (a private plane's head was      *)
(* INIT_LIST_HEAD'ed).  plane->fb is left as it is.                        *)
PlaneCleanup(p) ==
    /\ planeState[p] \in {"listed", "private"}
    /\ formats' = formats \ {p}
    /\ idr' = MO!ObjectPut(idr, planeId[p])
    /\ IF Contains(planeList, p)
       THEN /\ planeList' = Remove(planeList, p)
            /\ numPlane' = numPlane - 1
       ELSE UNCHANGED <<planeList, numPlane>>
    /\ planeState' = [planeState EXCEPT ![p] = "cleaned"]

(* drm_plane_force_disable: nothing when plane->fb is NULL, else the      *)
(* driver's disable_plane, __drm_framebuffer_unreference and fb = NULL.   *)
ForceDisable(pf, p) == IF pf[p] = None THEN pf ELSE [pf EXCEPT ![p] = None]

(* drm_mode_setplane with plane, CRTC and framebuffer ids: the plane by   *)
(* drm_mode_object_find (ENOENT if absent); fb_id 0 shuts the plane down  *)
(* under lock_all; otherwise the CRTC by id and the framebuffer by        *)
(* drm_framebuffer_lookup, then, under lock_all, update_plane and         *)
(* plane->fb = fb.  An unknown id, or a format or geometry check that     *)
(* fails, returns before anything is written.                             *)
SetPlane(pid, cid, fid) ==
    LET p == FindPlane(pid) IN
    /\ p # None
    /\ IF fid = 0
       THEN planeFb' = [planeFb EXCEPT ![p] = None]
       ELSE /\ FindCrtc(cid) # None
            /\ LookupFb(fid) # None
            /\ planeFb' = [planeFb EXCEPT ![p] = LookupFb(fid)]
    /\ UNCHANGED <<idr, planeId, planeState, planeList, numPlane, formats,
                   fbLive, resp>>

(* drm_mode_rmfb: __drm_framebuffer_unregister takes the id out of the    *)
(* idr; drm_framebuffer_remove then, under lock_all, walks plane_list and *)
(* drm_plane_force_disable's every plane whose fb is this one (the        *)
(* plane's reference keeps the refcount above 1, so the scan runs).       *)
RmFb(fid) ==
    LET f == LookupFb(fid) IN
    /\ f # None
    /\ idr' = MO!ObjectPut(idr, StaticId[f])
    /\ fbLive' = fbLive \ {f}
    /\ planeFb' = FoldLeft(LAMBDA pf, p : IF pf[p] = f THEN ForceDisable(pf, p) ELSE pf,
                           planeFb, planeList)

RmFbStep(fid) ==
    /\ RmFb(fid)
    /\ UNCHANGED <<planeId, planeState, planeList, numPlane, formats, resp>>

(* drm_mode_getplane_res under lock_all with the caller's count_planes    *)
(* cap: when num_plane is non-zero and cap >= num_plane, put_user each   *)
(* plane_list entry's id in turn (a fault at entry k returns EFAULT       *)
(* before count_planes is written); then count_planes = num_plane.  Of   *)
(* the reply only the caller's cap and the number of ids written are     *)
(* kept: which ids, and the count, no property tells apart.               *)
\* Bug variant: the capacity test is off by one.
GetPlaneResOffByOne(cap, k) ==
    /\ resp' =
         IF numPlane # 0 /\ cap + 1 >= numPlane
         THEN [cap |-> cap, written |-> IF k <= Len(planeList) THEN k - 1 ELSE Len(planeList)]
         ELSE [cap |-> cap, written |-> 0]
    /\ UNCHANGED <<idr, planeId, planeState, planeList, numPlane, formats,
                   planeFb, fbLive>>

GetPlaneRes(cap, k) ==
    /\ resp' =
         IF numPlane # 0 /\ cap >= numPlane
         THEN [cap |-> cap, written |-> IF k <= Len(planeList) THEN k - 1 ELSE Len(planeList)]
         ELSE [cap |-> cap, written |-> 0]
    /\ UNCHANGED <<idr, planeId, planeState, planeList, numPlane, formats,
                   planeFb, fbLive>>

\* Where put_user faults: 1..Len(planeList), or never (Len + 1).
FaultAt == IF CopyCanFault THEN 1..(Cardinality(Planes) + 1) ELSE {Cardinality(Planes) + 1}

-----------------------------------------------------------------------------
(* The gamma ioctls find their CRTC by id in the shared idr, with the     *)
(* CRTC type (drm_color_mgmt.c); a plane's or framebuffer's id is refused *)
(* before Gamma's step.  drm_mode_crtc_set_gamma_size is the driver's,   *)
(* called with the CRTC pointer.                                           *)
GammaSetIoctl(id, n, src, k) ==
    /\ FindCrtc(id) # None
    /\ G!GammaSet(FindCrtc(id), n, src, k)
    /\ UNCHANGED planeVars

GammaGetIoctl(id, n, k) ==
    /\ FindCrtc(id) # None
    /\ G!GammaGet(FindCrtc(id), n, k)
    /\ UNCHANGED planeVars

-----------------------------------------------------------------------------
\* drm_mode_config_init's empty lists, then the CRTCs and framebuffers
\* registered under their ids.
Init ==
    /\ idr = [i \in MO!Ids |->
                IF \E o \in Crtcs \cup FBs : StaticId[o] = i
                THEN CHOOSE o \in Crtcs \cup FBs : StaticId[o] = i
                ELSE None]
    /\ planeId = [p \in Planes |-> 0]
    /\ planeState = [p \in Planes |-> "unused"]
    /\ planeList = <<>>
    /\ numPlane = 0
    /\ formats = {}
    /\ planeFb = [p \in Planes |-> None]
    /\ fbLive = FBs
    /\ resp = [cap |-> 0, written |-> 0]
    /\ G!Init

Next ==
    \/ \E p \in Planes, priv \in BOOLEAN :
          PlaneInit(p, priv) /\ UNCHANGED <<planeFb, fbLive, resp, gammaVars>>
    \/ \E p \in Planes :
          PlaneCleanup(p) /\ UNCHANGED <<planeId, planeFb, fbLive, resp, gammaVars>>
    \/ \E pid, cid, fid \in IdArgs : SetPlane(pid, cid, fid) /\ UNCHANGED gammaVars
    \/ \E fid \in IdArgs : RmFbStep(fid) /\ UNCHANGED gammaVars
    \/ \E cap \in 0..Cardinality(Planes), k \in FaultAt :
          GetPlaneRes(cap, k) /\ UNCHANGED gammaVars
    \/ \E c \in Crtcs : G!SetGammaSize(c) /\ UNCHANGED planeVars
    \/ \E id \in IdArgs, n \in {0, Size}, k \in G!FaultPoints :
          \/ \E src \in G!Ramp : GammaSetIoctl(id, n, src, k)
          \/ GammaGetIoctl(id, n, k)

Spec == Init /\ [][Next]_vars

-----------------------------------------------------------------------------
TypeOK ==
    /\ planeId \in [Planes -> 0..MaxId]
    /\ planeState \in [Planes -> {"unused", "failed", "listed", "private", "cleaned"}]
    /\ planeList \in Seq(Planes)
    /\ numPlane \in Nat
    /\ formats \subseteq Planes
    /\ planeFb \in [Planes -> FBs \cup {None}]
    /\ fbLive \subseteq FBs

IdsResolve ==
    \A p \in Planes :
        (planeId[p] # 0 /\ FindPlane(planeId[p]) = p) <=> p \in Registered

(* GETPLANE_RES never writes more plane ids than the caller's            *)
(* count_planes: it sizes the check by num_plane and then copies every   *)
(* plane_list entry, so num_plane must stay equal to the list's length   *)
(* through every init, private-plane init and cleanup.                    *)
PlaneResWithinCount ==
    resp.written <= resp.cap

(* No plane holds a framebuffer RMFB has removed (spec 8: remove         *)
(* detaches every plane binding).  The removal scan must reach every      *)
(* plane SETPLANE can bind a framebuffer to, private ones included, and   *)
(* drm_plane_cleanup must not take a plane out of the core while it still *)
(* holds plane->fb, whose reference nothing would then drop.              *)
RemovedFbDetached ==
    \A f \in FBs \ fbLive : \A p \in Planes : planeFb[p] # f
====

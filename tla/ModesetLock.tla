---------------------------- MODULE ModesetLock ----------------------------
(***************************************************************************)
(* The modeset locks of drm_modeset_lock.c and their users.               *)
(* drm_modeset_lock_all takes mode_config.mutex and then every            *)
(* crtc->mutex in crtc_list order, one mutex_lock at a time;              *)
(* drm_modeset_unlock_all releases the CRTC mutexes and then              *)
(* mode_config.mutex.  drm_crtc_init (drm_modeset_helper.c) adds a CRTC  *)
(* to crtc_list under lock_all.  PAGE_FLIP and the cursor ioctls          *)
(* (drm_plane.c) lock a single crtc->mutex; GETCONNECTOR                   *)
(* (drm_connector.c) takes mode_config.mutex alone.  Every other ioctl    *)
(* of the core that changes configuration brackets its work with          *)
(* lock_all / unlock_all.                                                  *)
(*                                                                         *)
(* A lock acquisition is one step and blocks while the mutex is held;     *)
(* unlock_all releases in one step, since releasing never waits.          *)
(***************************************************************************)
EXTENDS Naturals, Sequences, SequencesExt, Functions, Relation

CONSTANTS Threads,   \* concurrent callers
          Crtcs,     \* CRTC objects a driver initialises
          None,      \* unlocked / no CRTC
          IdCanFail  \* whether drm_mode_object_get may fail in drm_crtc_init

ASSUME IdCanFail \in BOOLEAN

VARIABLES
    crtcList,   \* mode_config.crtc_list, in registration order
    crtcState,  \* "new" (not initialised), "listed", "failed" (init failed)
    config,     \* holder of mode_config.mutex
    crtcMutex,  \* holder of each crtc->mutex
    pc,         \* where each thread is
    op,         \* the call a thread is making: "all", "init", "one", "config"
    idx,        \* position in crtc_list of lock_all's next mutex_lock
    target      \* the CRTC of a drm_crtc_init, page flip or cursor call

vars == <<crtcList, crtcState, config, crtcMutex, pc, op, idx, target>>

Pcs == {"idle", "la_config", "la_crtc", "crit", "init_reg", "unlock_all",
        "one_lock", "one_crit", "cfg_lock", "cfg_crit"}

\* Where a thread goes once drm_modeset_lock_all has returned.
Entered(t) == IF op[t] = "init" THEN "init_reg" ELSE "crit"

-----------------------------------------------------------------------------
(* Calls a thread starts.  A lock_all user is any of SETCRTC, SETPLANE,   *)
(* OBJ_SETPROPERTY, GAMMA_SET/GET, GETBLOB, ... .  drm_crtc_init is made *)
(* by the driver for a CRTC it has not initialised.  PAGE_FLIP and CURSOR *)
(* first find the CRTC by id, so it is one on crtc_list.                  *)
StartAll(t) ==
    /\ pc[t] = "idle"
    /\ pc' = [pc EXCEPT ![t] = "la_config"]
    /\ op' = [op EXCEPT ![t] = "all"]
    /\ UNCHANGED <<crtcList, crtcState, config, crtcMutex, idx, target>>

\* Bug variant: a driver initialises a CRTC that is already on crtc_list.
StartInitTwice(t, c) ==
    /\ pc[t] = "idle"
    /\ pc' = [pc EXCEPT ![t] = "la_config"]
    /\ op' = [op EXCEPT ![t] = "init"]
    /\ target' = [target EXCEPT ![t] = c]
    /\ UNCHANGED <<crtcList, crtcState, config, crtcMutex, idx>>

StartInit(t, c) ==
    /\ pc[t] = "idle"
    /\ crtcState[c] = "new"
    /\ \A u \in Threads : ~(op[u] = "init" /\ target[u] = c /\ pc[u] # "idle")
    /\ pc' = [pc EXCEPT ![t] = "la_config"]
    /\ op' = [op EXCEPT ![t] = "init"]
    /\ target' = [target EXCEPT ![t] = c]
    /\ UNCHANGED <<crtcList, crtcState, config, crtcMutex, idx>>

StartOne(t, c) ==
    /\ pc[t] = "idle"
    /\ crtcState[c] = "listed"
    /\ pc' = [pc EXCEPT ![t] = "one_lock"]
    /\ op' = [op EXCEPT ![t] = "one"]
    /\ target' = [target EXCEPT ![t] = c]
    /\ UNCHANGED <<crtcList, crtcState, config, crtcMutex, idx>>

StartConfig(t) ==
    /\ pc[t] = "idle"
    /\ pc' = [pc EXCEPT ![t] = "cfg_lock"]
    /\ op' = [op EXCEPT ![t] = "config"]
    /\ UNCHANGED <<crtcList, crtcState, config, crtcMutex, idx, target>>

-----------------------------------------------------------------------------
\* Bug variant: lock_all returns once it holds mode_config.mutex, without
\* locking the CRTCs.
LockAllConfigOnly(t) ==
    /\ pc[t] = "la_config"
    /\ config = None
    /\ config' = t
    /\ pc' = [pc EXCEPT ![t] = Entered(t)]
    /\ UNCHANGED <<crtcList, crtcState, crtcMutex, op, idx, target>>

(* drm_modeset_lock_all: mutex_lock(&mode_config.mutex).                  *)
LockAllConfig(t) ==
    /\ pc[t] = "la_config"
    /\ config = None
    /\ config' = t
    /\ idx' = [idx EXCEPT ![t] = 1]
    /\ pc' = [pc EXCEPT ![t] = IF crtcList = <<>> THEN Entered(t) ELSE "la_crtc"]
    /\ UNCHANGED <<crtcList, crtcState, crtcMutex, op, target>>

(* drm_modeset_lock_all: mutex_lock(&crtc->mutex) for the next CRTC of    *)
(* crtc_list.                                                              *)
LockAllCrtc(t) ==
    /\ pc[t] = "la_crtc"
    /\ LET c == crtcList[idx[t]] IN
       /\ crtcMutex[c] = None
       /\ crtcMutex' = [crtcMutex EXCEPT ![c] = t]
    /\ idx' = [idx EXCEPT ![t] = @ + 1]
    /\ pc' = [pc EXCEPT ![t] = IF idx[t] = Len(crtcList) THEN Entered(t)
                                                          ELSE "la_crtc"]
    /\ UNCHANGED <<crtcList, crtcState, config, op, target>>

(* The work of a lock_all user.                                            *)
Critical(t) ==
    /\ pc[t] = "crit"
    /\ pc' = [pc EXCEPT ![t] = "unlock_all"]
    /\ UNCHANGED <<crtcList, crtcState, config, crtcMutex, op, idx, target>>

(* drm_crtc_init with lock_all held: mutex_init and mutex_lock the new    *)
(* CRTC's mutex, then drm_mode_object_get; on success the CRTC is added  *)
(* to crtc_list, on failure the function jumps to unlock_all.             *)
CrtcInitRegister(t) ==
    /\ pc[t] = "init_reg"
    /\ LET c == target[t] IN
       /\ crtcMutex' = [crtcMutex EXCEPT ![c] = t]
       /\ \/ /\ crtcList' = Append(crtcList, c)
             /\ crtcState' = [crtcState EXCEPT ![c] = "listed"]
          \/ /\ IdCanFail
             /\ crtcState' = [crtcState EXCEPT ![c] = "failed"]
             /\ UNCHANGED crtcList
    /\ pc' = [pc EXCEPT ![t] = "unlock_all"]
    /\ UNCHANGED <<config, op, idx, target>>

\* Bug variant: unlock_all releases mode_config.mutex only.
UnlockAllConfigOnly(t) ==
    /\ pc[t] = "unlock_all"
    /\ config' = None
    /\ pc' = [pc EXCEPT ![t] = "idle"]
    /\ UNCHANGED <<crtcList, crtcState, crtcMutex, op, idx, target>>

(* drm_modeset_unlock_all: mutex_unlock every crtc->mutex of crtc_list,   *)
(* then mode_config.mutex.                                                 *)
UnlockAll(t) ==
    /\ pc[t] = "unlock_all"
    /\ crtcMutex' = [c \in Crtcs |-> IF c \in ToSet(crtcList) THEN None
                                                            ELSE crtcMutex[c]]
    /\ config' = None
    /\ pc' = [pc EXCEPT ![t] = "idle"]
    /\ UNCHANGED <<crtcList, crtcState, op, idx, target>>

\* Bug variant: the single-CRTC path calls lock_all while it holds its
\* crtc->mutex (what spec section 4.2 forbids).
OneLockNested(t) ==
    /\ pc[t] = "one_lock"
    /\ crtcMutex[target[t]] = None
    /\ crtcMutex' = [crtcMutex EXCEPT ![target[t]] = t]
    /\ pc' = [pc EXCEPT ![t] = "la_config"]
    /\ op' = [op EXCEPT ![t] = "all"]
    /\ UNCHANGED <<crtcList, crtcState, config, idx, target>>

(* drm_mode_page_flip_ioctl / drm_mode_cursor_common:                     *)
(* mutex_lock(&crtc->mutex), the flip or cursor update, mutex_unlock.     *)
OneLock(t) ==
    /\ pc[t] = "one_lock"
    /\ crtcMutex[target[t]] = None
    /\ crtcMutex' = [crtcMutex EXCEPT ![target[t]] = t]
    /\ pc' = [pc EXCEPT ![t] = "one_crit"]
    /\ UNCHANGED <<crtcList, crtcState, config, op, idx, target>>

OneUnlock(t) ==
    /\ pc[t] = "one_crit"
    /\ crtcMutex' = [crtcMutex EXCEPT ![target[t]] = None]
    /\ pc' = [pc EXCEPT ![t] = "idle"]
    /\ UNCHANGED <<crtcList, crtcState, config, op, idx, target>>

(* drm_mode_getconnector: mode_config.mutex around the probe and copy.    *)
ConfigLock(t) ==
    /\ pc[t] = "cfg_lock"
    /\ config = None
    /\ config' = t
    /\ pc' = [pc EXCEPT ![t] = "cfg_crit"]
    /\ UNCHANGED <<crtcList, crtcState, crtcMutex, op, idx, target>>

ConfigUnlock(t) ==
    /\ pc[t] = "cfg_crit"
    /\ config' = None
    /\ pc' = [pc EXCEPT ![t] = "idle"]
    /\ UNCHANGED <<crtcList, crtcState, crtcMutex, op, idx, target>>

-----------------------------------------------------------------------------
Init ==
    /\ crtcList = <<>>
    /\ crtcState = [c \in Crtcs |-> "new"]
    /\ config = None
    /\ crtcMutex = [c \in Crtcs |-> None]
    /\ pc = [t \in Threads |-> "idle"]
    /\ op = [t \in Threads |-> "all"]
    /\ idx = [t \in Threads |-> 1]
    /\ target = [t \in Threads |-> None]

\* The calls a thread may start; callers are free never to start one.
Start(t) ==
    \/ StartAll(t) \/ StartConfig(t)
    \/ \E c \in Crtcs : StartInit(t, c) \/ StartOne(t, c)

\* The steps of a call in progress.
Step(t) ==
    \/ LockAllConfig(t) \/ LockAllCrtc(t) \/ Critical(t)
    \/ CrtcInitRegister(t) \/ UnlockAll(t)
    \/ OneLock(t) \/ OneUnlock(t) \/ ConfigLock(t) \/ ConfigUnlock(t)

Next == \E t \in Threads : Start(t) \/ Step(t)

Spec == Init /\ [][Next]_vars

-----------------------------------------------------------------------------
TypeOK ==
    /\ crtcList \in Seq(Crtcs) /\ IsInjective(crtcList)
    /\ crtcState \in [Crtcs -> {"new", "listed", "failed"}]
    /\ config \in Threads \cup {None}
    /\ crtcMutex \in [Crtcs -> Threads \cup {None}]
    /\ pc \in [Threads -> Pcs]
    /\ op \in [Threads -> {"all", "init", "one", "config"}]
    /\ idx \in [Threads -> Nat]
    /\ target \in [Threads -> Crtcs \cup {None}]

\* A thread is blocked in mutex_lock on the mutex it names.
Waiting(t) == pc[t] \in {"la_config", "la_crtc", "one_lock", "cfg_lock"}

\* The thread holding the mutex a blocked thread waits for.
Blocker(t) ==
    CASE pc[t] \in {"la_config", "cfg_lock"} -> config
      [] pc[t] = "la_crtc"  -> crtcMutex[crtcList[idx[t]]]
      [] pc[t] = "one_lock" -> crtcMutex[target[t]]

\* The waits-for relation of the modeset mutexes.
WaitsFor == [p \in Threads \X Threads |->
                Waiting(p[1]) /\ Blocker(p[1]) = p[2]]

(* The mutual exclusion drm_modeset_lock_all promises: from its return to *)
(* unlock_all, the caller holds mode_config.mutex and the mutex of every  *)
(* CRTC on crtc_list, including CRTCs drm_crtc_init added in between.     *)
LockAllCoversList ==
    \A t \in Threads :
        pc[t] \in {"crit", "init_reg"} =>
            /\ config = t
            /\ \A i \in 1..Len(crtcList) : crtcMutex[crtcList[i]] = t

(* Deadlock freedom of the modeset locks: no cycle of threads each        *)
(* blocked in mutex_lock on a mutex the next one holds (lock_all takes    *)
(* crtc_list in order under mode_config.mutex; page flip, cursor and      *)
(* GETCONNECTOR hold one modeset mutex and wait for no other), and no     *)
(* thread blocked on a mutex whose holder has returned.                   *)
NoLockCycle ==
    /\ IsIrreflexive(TransitiveClosure(WaitsFor, Threads), Threads)
    /\ \A t \in Threads : Waiting(t) /\ Blocker(t) # None => pc[Blocker(t)] # "idle"

(* Every modeset mutex held belongs to a thread inside a call: no call    *)
(* returns with a CRTC mutex or mode_config.mutex still locked.           *)
IdleHoldsNoLock ==
    /\ config # None => pc[config] # "idle"
    /\ \A c \in Crtcs : crtcMutex[c] # None => pc[crtcMutex[c]] # "idle"

(* Every modeset call returns: a thread that has entered lock_all, a     *)
(* single-CRTC lock or GETCONNECTOR eventually gets its mutexes, does its *)
(* work and releases them.  Fails if a call waits on a cycle or on a      *)
(* mutex that a returned call left locked.                                 *)
CallsReturn ==
    \A t \in Threads : pc[t] # "idle" ~> pc[t] = "idle"
====

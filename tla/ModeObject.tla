----------------------------- MODULE ModeObject -----------------------------
(***************************************************************************)
(* The mode-object identifier registry of drm_mode_object.c: the idr      *)
(* `crtc_idr' maps a positive 32-bit id to the object registered under it, *)
(* protected by `idr_mutex'.  Every operation below runs entirely inside   *)
(* one idr_mutex critical section, so each is a single atomic operator on  *)
(* the map.  An object records its own id (obj->id) and type separately   *)
(* from the map; `objId' is that per-object field.                         *)
(***************************************************************************)
EXTENDS Naturals, FiniteSetsExt

CONSTANTS MaxId,   \* the largest id the idr hands out (bounds the id space)
          NoObj    \* the empty slot / NULL object

Ids == 1..MaxId

\* The ids not currently mapped.
FreeIds(idr) == {i \in Ids : idr[i] = NoObj}

\* idr_get_new_above(idr, obj, 1, &new_id) succeeds iff some id >= 1 is free
\* and returns the smallest such id.
CanGetId(idr) == FreeIds(idr) # {}
NewId(idr) == Min(FreeIds(idr))

\* drm_mode_object_get on success: insert obj at the new id.
ObjectGet(idr, obj) == [idr EXCEPT ![NewId(idr)] = obj]

\* drm_mode_object_put: idr_remove(obj->id); removing an id that is not
\* mapped (0 for an object that never got one) leaves the idr unchanged.
ObjectPut(idr, id) == IF id \in Ids THEN [idr EXCEPT ![id] = NoObj] ELSE idr

\* drm_mode_object_find: the object at `id' if there is one, it has the
\* expected type (is in Type), and its own id field still equals `id'; NoObj otherwise.
ObjectFind(idr, objId, id, Type) ==
    IF id \in Ids /\ idr[id] # NoObj /\ idr[id] \in Type /\ objId[idr[id]] = id
    THEN idr[id]
    ELSE NoObj
=============================================================================

---------------------------- MODULE Properties -----------------------------
(***************************************************************************)
(* Mode-object properties: construction of properties and their enum      *)
(* entries (drm_property.c), the per-object property array                *)
(* (drm_object_attach_property / set_value / get_value and the            *)
(* OBJ_SETPROPERTY ioctl of drm_mode_object.c), and the connector's EDID  *)
(* blob (drm_connector.c, drm_property.c).  Every operation here runs     *)
(* under drm_modeset_lock_all or mode_config.mutex, so the operations are *)
(* atomic steps of one sequence.                                           *)
(*                                                                         *)
(* Data is abstracted: a property value is a small natural, a bitmask    *)
(* value is a natural whose bits are the flags, an EDID payload is the    *)
(* connector it was read from.  Names are left out.                       *)
(***************************************************************************)
EXTENDS Naturals, Sequences, SequencesExt, FiniteSets

CONSTANTS Conns,        \* connectors a driver registers
          Virtual,      \* connectors of type DRM_MODE_CONNECTOR_VIRTUAL
          Props,        \* property objects, EdidProp and DpmsProp included
          EdidProp,     \* mode_config.edid_property
          DpmsProp,     \* mode_config.dpms_property
          DpmsList,     \* values of drm_dpms_enum_list
          Blobs,        \* property blob objects
          MaxId,        \* size of the idr's id space
          MaxProps,     \* DRM_OBJECT_MAX_PROPERTY
          MaxBit,       \* largest bit number a bitmask entry may have (63)
          Vals,         \* values a caller passes
          EnumLists,    \* the entry values of driver enum / bitmask lists
          None,
          AllocCanFail, \* whether kzalloc and idr_pre_get may fail
          CanCleanup    \* whether drivers clean connectors up

ASSUME /\ Virtual \subseteq Conns
       /\ {EdidProp, DpmsProp} \subseteq Props
       /\ MaxProps >= 2
       /\ AllocCanFail \in BOOLEAN
       /\ CanCleanup \in BOOLEAN

Objs == Conns \cup Props \cup Blobs

MO == INSTANCE ModeObject WITH NoObj <- None

VARIABLES
    idr,       \* mode_config.crtc_idr
    prop,      \* each property: [state, id, kind, imm, values, entries]
    connId,    \* connector->base.id (0 while unregistered)
    propIds,   \* connector->properties.ids[0 .. count-1]
    propVals,  \* connector->properties.values[0 .. count-1]
    edidBlob,  \* connector->edid_blob_ptr
    blob       \* each blob: [state, id, data]

vars == <<idr, prop, connId, propIds, propVals, edidBlob, blob>>

Kinds == {"range", "enum", "bitmask", "blob"}

ObjId == [o \in Objs |-> CASE o \in Conns -> connId[o]
                           [] o \in Props -> prop[o].id
                           [] o \in Blobs -> blob[o].id]

\* drm_mode_object_find with the object type of the caller.
Find(id, Type) == MO!ObjectFind(idr, ObjId, id, Type)

\* The bits set in v.
Bits(v) == {i \in 0 .. MaxBit + 1 : (v \div 2^i) % 2 = 1}

-----------------------------------------------------------------------------
(* drm_property_change_is_valid: IMMUTABLE first, then RANGE, BITMASK,   *)
(* BLOB, and enum otherwise; the checks read property->values, the       *)
(* num_values slots filled by drm_property_add_enum or create_range.     *)
\* Bug variant: the range check admits one past the maximum.
ChangeIsValidRangeOffByOne(p, v) ==
    LET pr == prop[p] IN
    /\ ~pr.imm
    /\ CASE pr.kind = "range"   -> pr.values[1] <= v /\ v <= pr.values[2] + 1
         [] pr.kind = "bitmask" -> Bits(v) \subseteq ToSet(pr.values)
         [] pr.kind = "blob"    -> TRUE
         [] OTHER               -> v \in ToSet(pr.values)

\* Bug variant: the IMMUTABLE flag is not tested.
ChangeIsValidNoImmutable(p, v) ==
    LET pr == prop[p] IN
    CASE pr.kind = "range"   -> pr.values[1] <= v /\ v <= pr.values[2]
      [] pr.kind = "bitmask" -> Bits(v) \subseteq ToSet(pr.values)
      [] pr.kind = "blob"    -> TRUE
      [] OTHER               -> v \in ToSet(pr.values)

ChangeIsValid(p, v) ==
    LET pr == prop[p] IN
    /\ ~pr.imm
    /\ CASE pr.kind = "range"   -> pr.values[1] <= v /\ v <= pr.values[2]
         [] pr.kind = "bitmask" -> Bits(v) \subseteq ToSet(pr.values)
         [] pr.kind = "blob"    -> TRUE
         [] OTHER               -> v \in ToSet(pr.values)

(* drm_property_add_enum on a property record: a value already in the    *)
(* enum list only has its name replaced and values[index] is not written; *)
(* otherwise the entry is allocated (nomem: kzalloc fails) and appended.  *)
AddEnum(pr, index, value, nomem) ==
    CASE pr.kind \notin {"enum", "bitmask"}       -> [ret |-> "EINVAL", pr |-> pr]
      [] pr.kind = "bitmask" /\ value > MaxBit    -> [ret |-> "EINVAL", pr |-> pr]
      [] value \in ToSet(pr.entries)              -> [ret |-> "OK", pr |-> pr]
      [] nomem                                    -> [ret |-> "ENOMEM", pr |-> pr]
      [] OTHER -> [ret |-> "OK",
                   pr  |-> [pr EXCEPT !.values[index + 1] = value,
                                      !.entries = Append(@, value)]]

(* The loop of drm_property_create_enum / _bitmask: add_enum(i, list[i]) *)
(* for i = 0 .. n-1, stopping at the first error; nomemAt is the call    *)
(* whose kzalloc fails (none if beyond the list).                          *)
RECURSIVE AddEnums(_, _, _, _)
AddEnums(pr, list, i, nomemAt) ==
    IF i = Len(list) THEN [ret |-> "OK", pr |-> pr]
    ELSE LET r == AddEnum(pr, i, list[i + 1], i = nomemAt) IN
         IF r.ret # "OK" THEN r ELSE AddEnums(r.pr, list, i + 1, nomemAt)

\* A new property record as drm_property_create leaves it: values zeroed.
NewProp(id, kind, imm, n) ==
    [state |-> "live", id |-> id, kind |-> kind, imm |-> imm,
     values |-> [i \in 1 .. n |-> 0], entries |-> <<>>]

(* drm_object_property_set_value: the first slot holding the property's   *)
(* id gets the value; -EINVAL if the property is not attached.            *)
SetValue(vals, ids, id, v) ==
    LET i == SelectInSeq(ids, LAMBDA x : x = id) IN
    IF i = 0 THEN vals ELSE [vals EXCEPT ![i] = v]

(* drm_property_destroy: free the enum list and values, put the id back. *)
PropertyDestroy(idr0, pr) ==
    [idr |-> MO!ObjectPut(idr0, pr.id), pr |-> [pr EXCEPT !.state = "freed"]]

-----------------------------------------------------------------------------
(* drm_property_create_enum / _bitmask called by a driver with one of its *)
(* lists.  drm_property_create fails on kzalloc or drm_mode_object_get;  *)
(* a failing add_enum makes the constructor drm_property_destroy the     *)
(* property (enum list freed, id put back) and return NULL.               *)
CreateEnum(p, kind, imm, list) ==
    /\ prop[p].state = "unused"
    /\ \/ /\ ~MO!CanGetId(idr) \/ AllocCanFail
          /\ UNCHANGED <<idr, prop>>
       \/ /\ MO!CanGetId(idr)
          /\ \E nomemAt \in IF AllocCanFail THEN 0 .. Len(list) ELSE {Len(list)} :
             LET id == MO!NewId(idr)
                 r  == AddEnums(NewProp(id, kind, imm, Len(list)), list, 0, nomemAt)
                 d  == PropertyDestroy(MO!ObjectGet(idr, p), r.pr)
             IN IF r.ret = "OK"
                THEN /\ idr' = MO!ObjectGet(idr, p)
                     /\ prop' = [prop EXCEPT ![p] = r.pr]
                ELSE /\ idr' = d.idr
                     /\ prop' = [prop EXCEPT ![p] = d.pr]
    /\ UNCHANGED <<connId, propIds, propVals, edidBlob, blob>>

(* drm_property_create_range: a two-value property holding min and max.   *)
CreateRange(p, imm, min, max) ==
    /\ prop[p].state = "unused"
    /\ \/ /\ ~MO!CanGetId(idr) \/ AllocCanFail
          /\ UNCHANGED <<idr, prop>>
       \/ /\ MO!CanGetId(idr)
          /\ idr' = MO!ObjectGet(idr, p)
          /\ prop' = [prop EXCEPT ![p] =
                        [NewProp(MO!NewId(idr), "range", imm, 2)
                            EXCEPT !.values = <<min, max>>]]
    /\ UNCHANGED <<connId, propIds, propVals, edidBlob, blob>>

\* Bug variant: no DRM_OBJECT_MAX_PROPERTY check.
AttachPropertyNoLimit(c, p, init) ==
    /\ connId[c] # 0
    /\ prop[p].state = "live"
    /\ propIds' = [propIds EXCEPT ![c] = Append(@, prop[p].id)]
    /\ propVals' = [propVals EXCEPT ![c] = Append(@, init)]
    /\ UNCHANGED <<idr, prop, connId, edidBlob, blob>>

(* drm_object_attach_property: append (id, init) unless the array already *)
(* holds DRM_OBJECT_MAX_PROPERTY entries, in which case it only logs.     *)
AttachProperty(c, p, init) ==
    /\ connId[c] # 0
    /\ prop[p].state = "live"
    /\ IF Len(propIds[c]) = MaxProps
       THEN UNCHANGED <<propIds, propVals>>
       ELSE /\ propIds' = [propIds EXCEPT ![c] = Append(@, prop[p].id)]
            /\ propVals' = [propVals EXCEPT ![c] = Append(@, init)]
    /\ UNCHANGED <<idr, prop, connId, edidBlob, blob>>

(* drm_connector_init: under drm_modeset_lock_all register the connector *)
(* and attach the EDID property (not for virtual connectors) and DPMS,    *)
(* both with value 0; if no id can be had it returns the error.           *)
ConnectorInit(c) ==
    /\ connId[c] = 0
    /\ propIds[c] = <<>>
    /\ \/ /\ ~MO!CanGetId(idr) \/ AllocCanFail
          /\ UNCHANGED <<idr, connId, propIds, propVals>>
       \/ /\ MO!CanGetId(idr)
          /\ idr' = MO!ObjectGet(idr, c)
          /\ connId' = [connId EXCEPT ![c] = MO!NewId(idr)]
          /\ LET attach == IF c \in Virtual THEN <<DpmsProp>>
                                             ELSE <<EdidProp, DpmsProp>>
             IN /\ propIds' = [propIds EXCEPT ![c] = [i \in DOMAIN attach |->
                                                       prop[attach[i]].id]]
                /\ propVals' = [propVals EXCEPT ![c] = [i \in DOMAIN attach |-> 0]]
    /\ UNCHANGED <<prop, edidBlob, blob>>

(* drm_connector_cleanup: free the mode lists, put the id back and take  *)
(* the connector off connector_list.  The property array and             *)
(* edid_blob_ptr are left as they are; the driver then frees the         *)
(* connector (its property array, never empty after init, keeps it from  *)
(* ConnectorInit again).                                                   *)
ConnectorCleanup(c) ==
    /\ connId[c] # 0
    /\ idr' = MO!ObjectPut(idr, connId[c])
    /\ connId' = [connId EXCEPT ![c] = 0]
    /\ UNCHANGED <<prop, propIds, propVals, edidBlob, blob>>

(* drm_mode_connector_set_obj_prop: the core handles DPMS (the driver's  *)
(* dpms hook has no state here); any other property goes to the driver's *)
(* set_property, which may refuse it or be missing (-EINVAL).  On success *)
(* the value is stored with drm_object_property_set_value.               *)
ConnectorSetObjProp(c, p, v) ==
    /\ \E driverOk \in BOOLEAN : p = DpmsProp \/ driverOk
    /\ propVals' = [propVals EXCEPT ![c] = SetValue(@, propIds[c], prop[p].id, v)]

(* drm_mode_obj_set_property_ioctl for a connector (and                   *)
(* drm_mode_connector_property_set_ioctl, which calls it): find the       *)
(* object, require prop_id in its array, find the property, validate,    *)
(* then drm_mode_connector_set_obj_prop.  Every failure returns -EINVAL  *)
(* with nothing changed.                                                   *)
SetPropertyIoctl(objId, propId, v) ==
    LET c == Find(objId, Conns)
        p == Find(propId, Props)
    IN /\ c # None
       /\ propId \in ToSet(propIds[c])
       /\ p # None
       /\ ChangeIsValid(p, v)
       /\ ConnectorSetObjProp(c, p, v)
       /\ UNCHANGED <<idr, prop, connId, propIds, edidBlob, blob>>

\* Bug variant: the blob is freed but its id is not put back.
DestroyBlobNoPut(b) ==
    [idr |-> idr, blob |-> [blob EXCEPT ![b].state = "freed"]]

(* drm_property_destroy_blob: put the id back and free the blob.         *)
DestroyBlob(b) ==
    [idr |-> MO!ObjectPut(idr, blob[b].id),
     blob |-> [blob EXCEPT ![b].state = "freed"]]

(* drm_property_create_blob with blob object b: drm_mode_object_get, set *)
(* the length and copy the data, add the blob to property_blob_list.     *)
CreateBlob(idr0, blob0, b, data) ==
    [idr  |-> MO!ObjectGet(idr0, b),
     blob |-> [blob0 EXCEPT ![b] = [state |-> "live", id |-> MO!NewId(idr0),
                                     data |-> data]]]

(* drm_mode_connector_update_edid_property: destroy the previous blob     *)
(* (id put back, blob freed); with no EDID clear the pointer and set the  *)
(* property to 0; otherwise drm_property_create_blob (kzalloc, then       *)
(* drm_mode_object_get) and, on success, set the property to the new     *)
(* blob's id.  A failed creation returns -EINVAL with the property value  *)
(* untouched.                                                             *)
UpdateEdid(c, present) ==
    LET old   == edidBlob[c]
        d     == IF old # None THEN DestroyBlob(old) ELSE [idr |-> idr, blob |-> blob]
        idr1  == d.idr
        blob1 == d.blob
        slots == propIds[c]
    IN /\ connId[c] # 0
       /\ \/ /\ ~present
             /\ idr' = idr1 /\ blob' = blob1
             /\ edidBlob' = [edidBlob EXCEPT ![c] = None]
             /\ propVals' = [propVals EXCEPT ![c] = SetValue(@, slots, prop[EdidProp].id, 0)]
          \/ /\ present
             /\ ~MO!CanGetId(idr1) \/ AllocCanFail
             /\ idr' = idr1 /\ blob' = blob1
             /\ edidBlob' = [edidBlob EXCEPT ![c] = None]
             /\ UNCHANGED propVals
          \/ /\ present
             /\ MO!CanGetId(idr1)
             /\ \E b \in Blobs :
                  /\ blob1[b].state # "live"
                  /\ idr' = CreateBlob(idr1, blob1, b, c).idr
                  /\ blob' = CreateBlob(idr1, blob1, b, c).blob
                  /\ edidBlob' = [edidBlob EXCEPT ![c] = b]
                  /\ propVals' = [propVals EXCEPT ![c] =
                                     SetValue(@, slots, prop[EdidProp].id, MO!NewId(idr1))]
    /\ UNCHANGED <<prop, connId, propIds>>

-----------------------------------------------------------------------------
\* A property value that passes the validation the spec states (section
\* 4.3): a range holds it, an enum has an entry of that value, a bitmask
\* has an entry for each of its bits.
Legal(p, v) ==
    LET pr == prop[p] IN
    CASE pr.kind = "range"   -> pr.values[1] <= v /\ v <= pr.values[2]
      [] pr.kind = "bitmask" -> Bits(v) \subseteq ToSet(pr.entries)
      [] pr.kind = "enum"    -> v \in ToSet(pr.entries)
      [] OTHER               -> TRUE

UnusedProp == [state |-> "unused", id |-> 0, kind |-> "enum", imm |-> FALSE,
               values |-> <<>>, entries |-> <<>>]

(* The state drm_mode_config_init leaves: drm_connector_create_standard_ *)
(* properties has created the immutable EDID blob property (id 1) and the *)
(* DPMS enum (id 2); nothing else is registered.                           *)
Init ==
    /\ idr = [i \in MO!Ids |-> CASE i = 1 -> EdidProp [] i = 2 -> DpmsProp
                                  [] OTHER -> None]
    /\ prop = [p \in Props |->
                CASE p = EdidProp -> [NewProp(1, "blob", TRUE, 0)
                                        EXCEPT !.entries = <<>>]
                  [] p = DpmsProp -> [NewProp(2, "enum", FALSE, Len(DpmsList))
                                        EXCEPT !.values = DpmsList,
                                               !.entries = DpmsList]
                  [] OTHER -> UnusedProp]
    /\ connId = [c \in Conns |-> 0]
    /\ propIds = [c \in Conns |-> <<>>]
    /\ propVals = [c \in Conns |-> <<>>]
    /\ edidBlob = [c \in Conns |-> None]
    /\ blob = [b \in Blobs |-> [state |-> "unused", id |-> 0, data |-> None]]

\* A driver creates its properties and attaches each of them once to a
\* connector, with a legal initial value; callers issue ioctls and probes
\* update EDIDs.
Next ==
    \/ \E p \in Props, kind \in {"enum", "bitmask"}, imm \in BOOLEAN,
         list \in EnumLists : CreateEnum(p, kind, imm, list)
    \/ \E p \in Props, imm \in BOOLEAN, min, max \in Vals :
         min <= max /\ CreateRange(p, imm, min, max)
    \/ \E c \in Conns, p \in Props \ {EdidProp, DpmsProp} :
         /\ prop[p].id \notin ToSet(propIds[c])
         /\ \E init \in {v \in Vals : Legal(p, v)} : AttachProperty(c, p, init)
    \/ \E c \in Conns : ConnectorInit(c)
    \/ \E o, pid \in MO!Ids, v \in Vals : SetPropertyIoctl(o, pid, v)
    \/ \E c \in Conns, present \in BOOLEAN : UpdateEdid(c, present)
    \/ CanCleanup /\ \E c \in Conns : ConnectorCleanup(c)

Spec == Init /\ [][Next]_vars

-----------------------------------------------------------------------------
TypeOK ==
    /\ idr \in [MO!Ids -> Objs \cup {None}]
    /\ \A p \in Props : /\ prop[p].state \in {"unused", "live", "freed"}
                        /\ prop[p].kind \in Kinds
                        /\ prop[p].values \in Seq(Nat)
                        /\ prop[p].entries \in Seq(Nat)
    /\ connId \in [Conns -> 0 .. MaxId]
    /\ \A c \in Conns : /\ Len(propIds[c]) = Len(propVals[c])
                        /\ Len(propIds[c]) <= MaxProps
    /\ edidBlob \in [Conns -> Blobs \cup {None}]
    /\ \A b \in Blobs : blob[b].state \in {"unused", "live", "freed"}

\* Every value stored in a connector's property array is one the spec's
\* validation accepts for its property: drm_property_change_is_valid, fed
\* by the values[] that drm_property_add_enum fills, guards every ioctl
\* write, and drivers attach legal initial values.
StoredValuesLegal ==
    \A c \in Conns : \A i \in DOMAIN propIds[c] :
        LET p == Find(propIds[c][i], Props) IN
        p # None => Legal(p, propVals[c][i])

(* The EDID property of a registered non-virtual connector holds the id  *)
(* of the connector's current EDID blob, or 0 when it has none: spec 8,   *)
(* "subsequent get_value returns the new id", across every                *)
(* drm_mode_connector_update_edid_property (with blob creation that may   *)
(* fail) and every OBJ_SETPROPERTY.                                       *)
EdidMatchesBlob ==
    \A c \in Conns \ Virtual :
        connId[c] # 0 =>
            LET i == SelectInSeq(propIds[c], LAMBDA x : x = prop[EdidProp].id)
            IN propVals[c][i] = IF edidBlob[c] = None THEN 0
                                ELSE blob[edidBlob[c]].id

(* No freed blob can be reached: the idr never maps an id to a freed      *)
(* blob, and every connector's edid_blob_ptr is NULL or a live blob       *)
(* registered under its id.  update_edid_property destroys the blob       *)
(* edid_blob_ptr names before anything else, so a pointer left at a       *)
(* freed blob by a failed creation or a cleanup would be destroyed twice  *)
(* (spec 8: "no double free").                                            *)
NoDanglingBlob ==
    /\ \A i \in MO!Ids : idr[i] \in Blobs => blob[idr[i]].state = "live"
    /\ \A c \in Conns : edidBlob[c] # None =>
          /\ blob[edidBlob[c]].state = "live"
          /\ Find(blob[edidBlob[c]].id, Blobs) = edidBlob[c]

(* Every live blob is the edid_blob_ptr of a registered connector: EDID  *)
(* replacement and connector teardown free the blobs nobody uses (spec 8, *)
(* "no leak"), drm_connector_cleanup included.                           *)
NoBlobLeak ==
    \A b \in Blobs : blob[b].state = "live" =>
        \E c \in Conns : connId[c] # 0 /\ edidBlob[c] = b
====

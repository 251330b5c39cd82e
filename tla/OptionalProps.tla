--------------------------- MODULE OptionalProps ---------------------------
(***************************************************************************)
(* The optional connector properties of drm_connector.c.  A driver calls  *)
(* drm_mode_create_dvi_i_properties, _tv_properties,                      *)
(* _scaling_mode_property, _dithering_property and _dirty_info_property  *)
(* while it sets its connectors up, as many times as it has connectors    *)
(* that need them.  Each returns at once if its first mode_config slot is *)
(* already set; otherwise it creates its properties one after another and *)
(* stores each result, NULL on failure, in its slot.                      *)
(*                                                                         *)
(* A created property is a natural (its creation number); None is NULL.   *)
(* A constructor either returns a property it registered or, on kzalloc, *)
(* id or add_enum failure, destroys what it built and returns NULL.  The  *)
(* ten ranges of the TV constructor (margins, brightness, ...) have the   *)
(* same shape and are represented by one, "tvRange".                      *)
(***************************************************************************)
EXTENDS Naturals, Sequences

CONSTANTS None,         \* NULL
          NumModes,     \* num_modes passed to drm_mode_create_tv_properties
          MaxCalls,     \* bound on the constructor calls of a driver
          AllocCanFail  \* whether property creation may fail

ASSUME /\ NumModes \in Nat
       /\ MaxCalls \in Nat
       /\ AllocCanFail \in BOOLEAN

Slots == {"dviSel", "dviSub", "tvSel", "tvSub", "tvRange", "tvMode",
          "scaling", "dither", "dirty"}

VARIABLES
    slot,   \* the mode_config property pointers
    live,   \* properties registered (on property_list, id in the idr)
    next,   \* creation number of the next property
    calls,  \* constructor calls so far
    bug     \* a NULL property has been dereferenced

vars == <<slot, live, next, calls, bug>>

\* Whether a creation may fail.
Outcomes == IF AllocCanFail THEN BOOLEAN ELSE {TRUE}

(* What drm_property_create_enum / _create_range / _create return for the *)
(* i-th creation of a call: the new property, or NULL.                     *)
Result(i, ok) == IF ok THEN next + i ELSE None

(* A constructor body creating the properties of ss in order, with        *)
(* outcomes ok, and storing each result in its slot.                       *)
CreateInto(ss, ok) ==
    /\ slot' = [s \in Slots |->
                  IF \E i \in DOMAIN ss : ss[i] = s
                  THEN Result(CHOOSE i \in DOMAIN ss : ss[i] = s,
                              ok[CHOOSE i \in DOMAIN ss : ss[i] = s])
                  ELSE slot[s]]
    /\ live' = live \cup {next + i : i \in {j \in DOMAIN ss : ok[j]}}
    /\ next' = next + Len(ss)
    /\ calls' = calls + 1

Call == calls < MaxCalls /\ ~bug

-----------------------------------------------------------------------------
(* drm_mode_create_dvi_i_properties: return if the select property        *)
(* exists, else create the select enum and the immutable subconnector     *)
(* enum.                                                                   *)
CreateDviI ==
    /\ Call
    /\ slot["dviSel"] = None
    /\ \E ok \in [1..2 -> Outcomes] : CreateInto(<<"dviSel", "dviSub">>, ok)
    /\ UNCHANGED bug

(* drm_mode_create_tv_properties: return if the select property exists,   *)
(* else create the select and subconnector enums, the ranges, and the    *)
(* mode property with drm_property_create, then drm_property_add_enum    *)
(* each of the num_modes modes into tv_mode_property without checking it  *)
(* (add_enum dereferences the property before anything else).            *)
CreateTv ==
    /\ Call
    /\ slot["tvSel"] = None
    /\ \E ok \in [1..4 -> Outcomes] :
          /\ CreateInto(<<"tvSel", "tvSub", "tvRange", "tvMode">>, ok)
          /\ bug' = (~ok[4] /\ NumModes > 0)

(* drm_mode_create_scaling_mode_property, _dithering_property and        *)
(* _dirty_info_property: return if the property exists, else create the  *)
(* enum.                                                                   *)
CreateSingle(s) ==
    /\ Call
    /\ slot[s] = None
    /\ \E ok \in [1..1 -> Outcomes] : CreateInto(<<s>>, ok)
    /\ UNCHANGED bug

CreateScalingMode == CreateSingle("scaling")
CreateDithering == CreateSingle("dither")
CreateDirtyInfo == CreateSingle("dirty")

-----------------------------------------------------------------------------
Init ==
    /\ slot = [s \in Slots |-> None]
    /\ live = {}
    /\ next = 1
    /\ calls = 0
    /\ bug = FALSE

Next ==
    \/ CreateDviI
    \/ CreateTv
    \/ CreateScalingMode
    \/ CreateDithering
    \/ CreateDirtyInfo

Spec == Init /\ [][Next]_vars

-----------------------------------------------------------------------------
(* No constructor dereferences a NULL property: drm_property_add_enum,   *)
(* called by the TV constructor on tv_mode_property for each of its      *)
(* num_modes modes, is only ever given a property that was created.      *)
NoNullDeref == ~bug
====

------------------------------ MODULE Queries -------------------------------
(***************************************************************************)
(* The copy-out of the query ioctls: OBJ_GETPROPERTIES                     *)
(* (drm_mode_object.c), GETPROPERTY and GETBLOB (drm_property.c),          *)
(* GETCONNECTOR (drm_connector.c) and GETPLANE (drm_plane.c).  Each runs   *)
(* under a modeset lock, so the object it reads does not change during     *)
(* the call; what varies is the object's counts, the counts the caller    *)
(* passes, and which copy to user memory faults.                           *)
(*                                                                         *)
(* An ioctl is a sequence of arrays ("blocks") handled in code order.      *)
(* For each, the code tests the caller's count against the object's,       *)
(* copies the entries one put_user / copy_to_user at a time (or the whole  *)
(* array in one copy), and only then writes the object's count back; the   *)
(* first faulting copy ends the call with -EFAULT.  Entry contents are     *)
(* left out: only how many entries reach each user buffer is kept.         *)
(***************************************************************************)
EXTENDS Naturals, Sequences, SequencesExt

CONSTANTS MaxN,        \* largest count of an object's array
          MaxEncoders  \* DRM_CONNECTOR_MAX_ENCODER

\* Encoder ids a driver attaches (drm_encoder_init gives them ids >= 1).
EncoderIds == {1, 2}

-----------------------------------------------------------------------------
(* One array of a query.  n: the object's count, which the code tests the *)
(* caller's count against and writes back; elems: the entries the copy    *)
(* loop writes; per: user copies per entry (0: the whole array is one      *)
(* copy); cap: the caller's count; eq: the test is == instead of >=.      *)
Block(n, elems, per, cap, eq) ==
    [n |-> n, elems |-> elems, per |-> per, cap |-> cap, eq |-> eq]

\* Whether the code copies the array: count && cap >= count, or, for
\* GETBLOB, cap == length.
Fills(b) == IF b.eq THEN b.cap = b.n ELSE b.cap >= b.n /\ b.n # 0

\* The user copies the block makes when it fills.
Calls(b) == IF b.per = 0 THEN 1 ELSE b.elems * b.per

(* Entries of a user buffer touched when copy j + 1 of the block faults:  *)
(* the entries completed and the one being written (all of them for a     *)
(* single copy of the whole array).                                        *)
Touched(b, j) == IF b.per = 0 THEN b.elems ELSE j \div b.per + 1

(* Run the blocks in order.  k is the number of the copy that faults,     *)
(* counted over the whole call (beyond the last copy: none faults).  The  *)
(* result has, per block, the entries written and the count the caller    *)
(* finds afterwards: the object's if the code reached the write-back,     *)
(* the caller's own otherwise.                                             *)
RECURSIVE CopyOut(_, _, _)
CopyOut(bs, k, out) ==
    IF bs = <<>> THEN out
    ELSE LET b == Head(bs)
             c == IF Fills(b) THEN Calls(b) ELSE 0
         IN IF k <= c
            THEN [ret     |-> "EFAULT",
                  written |-> out.written \o <<Touched(b, k - 1)>>
                                 \o [i \in 1 .. Len(Tail(bs)) |-> 0],
                  count   |-> out.count \o [i \in 1 .. Len(bs) |-> bs[i].cap]]
            ELSE CopyOut(Tail(bs), k - c,
                         [ret     |-> "OK",
                          written |-> Append(out.written, IF Fills(b) THEN b.elems ELSE 0),
                          count   |-> Append(out.count, b.n)])

Start == [ret |-> "OK", written |-> <<>>, count |-> <<>>]

\* The reply to a call that fails before copying anything.
Einval(bs) == [ret |-> "EINVAL", written |-> [i \in DOMAIN bs |-> 0],
               count |-> [i \in DOMAIN bs |-> bs[i].cap]]

-----------------------------------------------------------------------------
\* Bug variant: the test admits a caller count one short of the object's.
ObjGetPropertiesOffByOne(found, n, cap, k) ==
    LET bs == <<Block(n, n, 2, cap + 1, FALSE)>> IN
    IF ~found THEN Einval(bs) ELSE CopyOut(bs, k, Start)

(* drm_mode_obj_get_properties_ioctl: find the object (and its property  *)
(* array; -EINVAL if either is missing), then the ids and values, two     *)
(* put_user per property, and count_props.                                *)
ObjGetProperties(found, n, cap, k) ==
    LET bs == <<Block(n, n, 2, cap, FALSE)>> IN
    IF ~found THEN Einval(bs) ELSE CopyOut(bs, k, Start)

(* drm_mode_getproperty_ioctl: count the enum (or blob) list, copy        *)
(* num_values values, then for an enum or bitmask the entries (value and  *)
(* name, two copies each), for a blob property the blob ids and lengths.  *)
(* No code path in this tree puts a blob on a property's list, so the     *)
(* blob block has no entries.                                             *)
GetProperty(found, kind, nv, ne, capV, capE, k) ==
    LET list == IF kind = "blob" THEN 0 ELSE ne
        bs == <<Block(nv, nv, 1, capV, FALSE)>> \o
              (IF kind = "range" THEN <<>>
               ELSE <<Block(list, list, 2, capE, FALSE)>>)
    IN IF ~found THEN Einval(bs) ELSE CopyOut(bs, k, Start)

(* drm_mode_getblob_ioctl: copy the data only when the caller's length    *)
(* equals the blob's, then write the length back.                         *)
GetBlob(found, len, cap, k) ==
    LET bs == <<Block(len, len, 0, cap, TRUE)>> IN
    IF ~found THEN Einval(bs) ELSE CopyOut(bs, k, Start)

(* drm_mode_getplane: format_count && count_format_types >= format_count, *)
(* one copy of the format array, then count_format_types.                 *)
GetPlane(found, nf, cap, k) ==
    LET bs == <<Block(nf, nf, 0, cap, FALSE)>> IN
    IF ~found THEN Einval(bs) ELSE CopyOut(bs, k, Start)

\* encoder_ids slots that hold an encoder.
Listed(ids) == SelectSeq(ids, LAMBDA x : x # 0)

\* Bug variant: the counting loop counts every slot.
EncodersCountAllSlots(ids) == Len(ids)

(* drm_mode_getconnector's first loop: encoders_count, the slots of       *)
(* encoder_ids that are not 0.                                            *)
EncodersCount(ids) == Len(SelectSeq(ids, LAMBDA x : x # 0))

(* drm_mode_getconnector after the lookup: modes (one copy each; the      *)
(* mode list is the one fill_modes leaves when count_modes is 0), the     *)
(* property ids and values (two put_user each), then the encoder ids of   *)
(* the non-zero slots.                                                     *)
GetConnector(found, nm, np, ids, capM, capP, capE, k) ==
    LET bs == <<Block(nm, nm, 1, capM, FALSE),
                Block(np, np, 2, capP, FALSE),
                Block(EncodersCount(ids), Len(Listed(ids)), 1, capE, FALSE)>>
    IN IF ~found THEN Einval(bs) ELSE CopyOut(bs, k, Start)

-----------------------------------------------------------------------------
(* drm_mode_connector_attach_encoder: the first empty slot gets the       *)
(* encoder's id; with every slot used it returns -ENOMEM.  It does not     *)
(* look for the encoder among the slots already used.                     *)
AttachEncoder(ids, e) ==
    LET i == SelectInSeq(ids, LAMBDA x : x = 0) IN
    IF i = 0 THEN ids ELSE [ids EXCEPT ![i] = e]

(* drm_mode_connector_detach_encoder: the first slot holding the          *)
(* encoder's id is cleared and the loop stops.                            *)
DetachEncoder(ids, e) ==
    LET i == SelectInSeq(ids, LAMBDA x : x = e) IN
    IF i = 0 THEN ids ELSE [ids EXCEPT ![i] = 0]

(* The encoder_ids arrays a driver's attach and detach calls can leave,   *)
(* from the zeroed array drm_connector_init's kzalloc gives: the closure  *)
(* of the two operations.                                                 *)
RECURSIVE Reach(_)
Reach(S) ==
    LET T == S \cup {AttachEncoder(a, e) : a \in S, e \in EncoderIds}
               \cup {DetachEncoder(a, e) : a \in S, e \in EncoderIds}
    IN IF T = S THEN S ELSE Reach(T)

EncoderArrays == Reach({[i \in 1 .. MaxEncoders |-> 0]})
====

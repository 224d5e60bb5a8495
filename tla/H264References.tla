--------------------------- MODULE H264References ---------------------------
(***************************************************************************)
(* What psb_H264.c remembers of a picture when it has been decoded, and    *)
(* how the slices of later pictures find it.  A surface's extra_info keeps *)
(* its place among the reference frames of the picture it was last a       *)
(* reference of, and the buffer its motion vectors (colocated data) went   *)
(* to; nobody clears either before the next configuration.  A slice names  *)
(* its references by surface; what the hardware is given are the places    *)
(* and a table of addresses.                                               *)
(*                                                                         *)
(* Which pictures are references, and in which order, is Chromium's        *)
(* H264Decoder's decision; it is not part of the repository and is the     *)
(* environment.  It never decodes into the surface of a reference          *)
(* (SurfaceExclusive of HaikuMsvdxDecoder), and has at most as many        *)
(* references as the sequence parameters say.                              *)
(***************************************************************************)
EXTENDS Naturals, Sequences, FiniteSets, SequencesExt

CONSTANT Surface    \* the configured surfaces, sSurface[0 .. sSurfaces - 1]

NoSurface == "none"     \* VA_INVALID: 0xffffffff, which SURFACE() finds not

ASSUME SurfaceAssumption == IsFiniteSet(Surface) /\ NoSurface \notin Surface

NoIndex == 255          \* 0xff: "unused"
NoAddress == "deadbeef" \* 0xdeadbeef

ColocatedSize == Cardinality(Surface)   \* colocated_buffers_size

VARIABLES
    dpb,        \* surfaces of the pictures that may be referenced
    target,     \* current_render_target
    frames,     \* pic_params->ReferenceFrames, as surfaces
    dpbIdx,     \* extra_info[2] of each surface: its place in frames, from 0
    colIdx,     \* extra_info[3]: its colocated buffer, from 1; 0 is none
    colocated,  \* colocated_buffers_idx
    motion,     \* motion[b]: whose motion vectors colocated buffer b holds
    sliceRefs   \* what the chunks of the slice written last say, or {}

refVars == <<dpb, target, frames, dpbIdx, colIdx, colocated, motion,
             sliceRefs>>

(* After psb_surface_create and createContext.                             *)
Unused ==
    [dpb |-> {}, target |-> NoSurface, frames |-> << >>,
     dpbIdx |-> [s \in Surface |-> 0], colIdx |-> [s \in Surface |-> 0],
     colocated |-> 0, motion |-> [b \in 1 .. ColocatedSize |-> NoSurface],
     sliceRefs |-> {}]

RefInit ==
    /\ dpb = Unused.dpb
    /\ target = Unused.target
    /\ frames = Unused.frames
    /\ dpbIdx = Unused.dpbIdx
    /\ colIdx = Unused.colIdx
    /\ colocated = Unused.colocated
    /\ motion = Unused.motion
    /\ sliceRefs = Unused.sliceRefs

-----------------------------------------------------------------------------
(* A slip: the new surfaces keep what their memory held.                   *)
SurfacesKept ==
    /\ dpb' = Unused.dpb
    /\ target' = Unused.target
    /\ frames' = Unused.frames
    /\ colocated' = Unused.colocated
    /\ motion' = Unused.motion
    /\ sliceRefs' = Unused.sliceRefs
    /\ UNCHANGED <<dpbIdx, colIdx>>

(* msvdx_decode_configure: psb_surface_create clears each surface, and the *)
(* context and its colocated buffers are new.                              *)
NewSurfaces ==
    /\ dpb' = Unused.dpb
    /\ target' = Unused.target
    /\ frames' = Unused.frames
    /\ dpbIdx' = Unused.dpbIdx
    /\ colIdx' = Unused.colIdx
    /\ colocated' = Unused.colocated
    /\ motion' = Unused.motion
    /\ sliceRefs' = Unused.sliceRefs

Lowest(I) == CHOOSE i \in I : \A j \in I : i <= j

(* A slip: while (--i), and the first reference keeps its old place.       *)
PlacedButFirst(F, n) ==
    [s \in Surface |->
        LET at == {i \in DOMAIN F : i <= n /\ F[i] = s /\ i > 1}
        IN  IF at = {} THEN dpbIdx[s] ELSE Lowest(at) - 1]

(* The loop over the reference frames goes down from the last of the n, so *)
(* that a surface is left with its lowest place.                           *)
Placed(F, n) ==
    [s \in Surface |->
        LET at == {i \in DOMAIN F : i <= n /\ F[i] = s}
        IN  IF at = {} THEN dpbIdx[s] ELSE Lowest(at) - 1]

(* psb__H264_allocate_colocated_buffer, when psb_buffer_create succeeds.   *)
ColocatedFor(s) ==
    IF colIdx[s] # 0
    THEN UNCHANGED <<colIdx, colocated>>
    ELSE /\ colocated < ColocatedSize
         /\ colocated' = colocated + 1
         /\ colIdx' = [colIdx EXCEPT ![s] = colocated + 1]

(* psb__H264_process_picture_param of a picture with num_ref_frames n.     *)
(* The references stay in the DPB, others may leave it.                    *)
PictureParam(n) ==
    \E keep \in SUBSET dpb :
        /\ Cardinality(keep) <= n
        /\ frames' \in SetToSeqs(keep)
        /\ target' \in Surface \ keep
        /\ dpb' = keep
        /\ ColocatedFor(target')
        /\ dpbIdx' = Placed(frames', n)
        /\ sliceRefs' = {}
        /\ UNCHANGED motion

(* The same when there is no colocated buffer to be had.  It returns       *)
(* before the places are written; the decoder fails, and is Reset.         *)
PictureParamFails(n) ==
    \E keep \in SUBSET dpb :
        /\ Cardinality(keep) <= n
        /\ frames' \in SetToSeqs(keep)
        /\ target' \in Surface \ keep
        /\ colIdx[target'] = 0
        /\ dpb' = {}
        /\ sliceRefs' = {}
        /\ UNCHANGED <<dpbIdx, colIdx, colocated, motion>>

-----------------------------------------------------------------------------
(* The lists of n entries a slice may have: the frames, over and over,     *)
(* from each of them on, or the frames once and then entries that name     *)
(* nothing (bound: the orders).                                            *)
Lists(F, n) ==
    {[i \in 1 .. n |-> F[((i + k) % Len(F)) + 1]] : k \in DOMAIN F}
    \cup {[i \in 1 .. n |-> IF i <= Len(F) THEN F[i] ELSE NoSurface]}

NoList(n) == [i \in 1 .. n |-> NoSurface]

(* PICTURE2INDEX; no field is a bottom field here.                         *)
Index(s) == IF s = NoSurface THEN NoIndex ELSE dpbIdx[s]

(* is_used: "Mark onlys frame that are actualy used".                      *)
Used(l0, l1) == {dpbIdx[s] : s \in (Range(l0) \cup Range(l1)) \ {NoSurface}}

(* The chunk of reference addresses: one for each of num_ref_frames.       *)
Table(l0, l1, n) ==
    [k \in 0 .. n - 1 |->
        IF k + 1 \in DOMAIN frames /\ k \in Used(l0, l1)
        THEN frames[k + 1] ELSE NoAddress]

(* list0_inverse: for each place, the first entry of list 0 that names it. *)
Inverse0(l0) ==
    [k \in 0 .. 15 |->
        LET at == {i \in DOMAIN l0 : l0[i] # NoSurface /\ dpbIdx[l0[i]] = k}
        IN  IF at = {} THEN NoIndex ELSE Lowest(at) - 1]

(* What build_rendec_params and its chunks say of a slice's references.    *)
(* The hardware writes the picture's motion vectors to its own buffer.     *)
Refer(b, l0, l1, n) ==
    /\ sliceRefs' =
          {[b |-> b, l0 |-> l0, l1 |-> l1,
            list0 |-> [i \in DOMAIN l0 |-> Index(l0[i])],
            list1 |-> [i \in DOMAIN l1 |-> Index(l1[i])],
            inverse |-> IF b THEN Inverse0(l0) ELSE << >>,
            table |-> Table(l0, l1, n),
            own |-> colIdx[target],
            col |-> IF b THEN colIdx[l1[1]] ELSE 0]}
    /\ motion' = [motion EXCEPT ![colIdx[target]] = target]
    /\ UNCHANGED <<dpb, target, frames, dpbIdx, colIdx, colocated>>

(* A slice of type and list lengths as s says.  H264Decoder decodes no P   *)
(* or B slice without a reference.                                         *)
SliceRefers(s, n) ==
    IF s.type = "I"
    THEN Refer(FALSE, NoList(s.l0), NoList(s.l1), n)
    ELSE /\ frames # << >>
         /\ \E l0 \in Lists(frames, s.l0) :
            \E l1 \in IF s.type = "B" THEN Lists(frames, s.l1)
                                      ELSE {NoList(s.l1)} :
                Refer(s.type = "B", l0, l1, n)

(* The picture is decoded, and may be a reference from now on, or it       *)
(* failed, and Reset empties the DPB.                                      *)
PictureEnds(decoded) ==
    /\ dpb' \in IF decoded THEN {dpb, dpb \cup {target}, {}} ELSE {{}}
    /\ sliceRefs' = {}
    /\ UNCHANGED <<target, frames, dpbIdx, colIdx, colocated, motion>>

-----------------------------------------------------------------------------
(* Every surface that may be referenced has a colocated buffer, and there  *)
(* are never more of them than surfaces (colocated_buffers_size).          *)
RefTypeOK ==
    /\ dpb \subseteq Surface
    /\ target \in Surface \cup {NoSurface}
    /\ Range(frames) \subseteq Surface
    /\ dpbIdx \in [Surface -> 0 .. 15]
    /\ colIdx \in [Surface -> 0 .. ColocatedSize]
    /\ colocated \in 0 .. ColocatedSize
    /\ \A s \in dpb : colIdx[s] # 0

(* An entry of a list reaches, by its place, the surface it is to name.    *)
ReachesTheNamed(table, l, indices) ==
    \A i \in DOMAIN l :
        IF l[i] = NoSurface THEN indices[i] = NoIndex
        ELSE indices[i] \in DOMAIN table /\ table[indices[i]] = l[i]

(* The inverse of a list finds the first of its entries for every place.   *)
InverseAgrees(table, l, inverse) ==
    \A k \in DOMAIN inverse :
        inverse[k] # NoIndex =>
            /\ k \in DOMAIN table
            /\ l[inverse[k] + 1] = table[k]
            /\ \A i \in 1 .. inverse[k] : l[i] # table[k]

(* The hardware is led to the right picture: through the place that the    *)
(* surface was given, possibly pictures ago, an entry of a slice's lists   *)
(* reaches the address of the surface the decoder named, and an entry that *)
(* names nothing reaches nothing.  The inverse list agrees.                *)
ReferencesResolve ==
    \A r \in sliceRefs :
        /\ ReachesTheNamed(r.table, r.l0, r.list0)
        /\ ReachesTheNamed(r.table, r.l1, r.list1)
        /\ InverseAgrees(r.table, r.l0, r.inverse)

(* Motion vectors survive as long as they may be read: every reference's   *)
(* buffer holds its own, a B slice reads those of the first picture of its *)
(* list 1, and the picture being decoded writes over none of them.         *)
MotionIsTheirs ==
    /\ \A s \in dpb : motion[colIdx[s]] = s
    /\ \A r \in sliceRefs :
          r.b => /\ r.col \in DOMAIN motion
                 /\ motion[r.col] = r.l1[1]
                 /\ r.own # r.col
=============================================================================

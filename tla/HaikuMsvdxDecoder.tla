------------------------- MODULE HaikuMsvdxDecoder -------------------------
(***************************************************************************)
(* HaikuMsvdxVideoDecoder and its SurfacePool, in                          *)
(* haiku_msvdx_video_decoder.cc: which picture holds which surface, when a *)
(* surface may be decoded into again, and which timestamp an output frame  *)
(* is given.                                                               *)
(*                                                                         *)
(* Chromium's H264Decoder, which drives all this through the accelerator   *)
(* interface, is not part of the repository.  It is modelled as the        *)
(* environment the code is written for: it keeps a decoded picture buffer  *)
(* (dpb) of the size the stream asks for, and, between two pictures, the   *)
(* reference lists it last passed to SubmitFrameMetadata (lists).  At a    *)
(* configuration change it has output everything and emptied the DPB; the  *)
(* lists may be empty too, as Configure's comment has it ("a surface is    *)
(* held only by the DPB and by the picture being decoded"), or not: held   *)
(* records that a picture outlived its configuration.                      *)
(*                                                                         *)
(* A picture is [buf, surface]: the number of the buffer it came from,     *)
(* which also stands for that buffer's timestamp, and its surface.         *)
(***************************************************************************)
EXTENDS Naturals, FiniteSets, TLC

CONSTANTS
    MaxSurfaces,   \* PSB_MAX_SURFACES, and the 24 of Configure
    DpbSizes,      \* the DPB sizes streams ask for
    KeptStamps,    \* timestamps_ is trimmed to this many (64)
    Reorder,       \* the stream's: a picture is output before that many more
    MaxBuffers     \* bound: buffers fed to Decode

ASSUME DecoderAssumption ==
    /\ MaxSurfaces \in Nat
    /\ DpbSizes \in SUBSET Nat
    /\ KeptStamps \in Nat
    /\ Reorder \in Nat
    /\ MaxBuffers \in Nat

VARIABLES
    phase,      \* where Decode is, or why it gave up
    fed,        \* buffers fed; next_bitstream_id_ is fed
    stamps,     \* timestamps_: the ids that still have their timestamp
    surfaces,   \* surfaces configured in msvdx_decode.c (sSurfaces)
    dpbSize,    \* the size of the decoder's DPB, 0 before the first SPS
    free,       \* SurfacePool::free_: how often each surface is in it
    current,    \* {} or the one picture being decoded
    dpb,        \* pictures in the DPB
    lists,      \* pictures in the reference lists
    shown,      \* the buffers whose pictures have been output
    content,    \* content[s]: the picture last decoded into surface s
    late,       \* pictures whose end() timed out and that the MTX may finish
    held,       \* history: a picture was alive when the pool was reset
    output      \* history: [buf, shows, stamp] of every frame output

vars == <<phase, fed, stamps, surfaces, dpbSize, free, current, dpb, lists,
          shown, content, late, held, output>>

Surface == 0 .. MaxSurfaces - 1

Picture(b, s) == [buf |-> b, surface |-> s]

Alive == current \cup dpb \cup lists

(* ~MsvdxH264Picture of every picture in P: its surface goes back.         *)
Given(P) == [s \in Surface |->
                free[s] + Cardinality({p \in P : p.surface = s})]

Init ==
    /\ phase = "idle"
    /\ fed = 0
    /\ stamps = {}
    /\ surfaces = 0
    /\ dpbSize = 0
    /\ free = [s \in Surface |-> 0]
    /\ current = {}
    /\ dpb = {}
    /\ lists = {}
    /\ shown = {}
    /\ content = [s \in Surface |-> 0]
    /\ late = {}
    /\ held = FALSE
    /\ output = {}

-----------------------------------------------------------------------------
(* Initialize, again, with a new configuration: a new empty pool and a new *)
(* decoder.  The old decoder's pictures go back to the pool they came from.*)
Initialize ==
    /\ phase = "idle"
    /\ dpbSize' = 0
    /\ free' = [s \in Surface |-> 0]
    /\ current' = {}
    /\ dpb' = {}
    /\ lists' = {}
    /\ UNCHANGED <<phase, fed, stamps, surfaces, shown, content, late, held,
                   output>>

(* Decode of a buffer: it gets the next id, and its timestamp is kept.     *)
Decode ==
    /\ phase = "idle"
    /\ fed < MaxBuffers
    /\ fed' = fed + 1
    /\ stamps' = stamps \cup {fed + 1}
    /\ phase' = "decoding"
    /\ UNCHANGED <<surfaces, dpbSize, free, current, dpb, lists, shown,
                   content, late, held, output>>

AllShown == \A p \in dpb : p.buf \in shown

(* A slip, one surface too few: the last reference list is forgotten.    *)
CountShort(n) == IF n + 1 < MaxSurfaces THEN n + 1 ELSE MaxSurfaces

(* Configure's count: the decoder's required pictures and two more.        *)
Count(n) == IF n + 2 < MaxSurfaces THEN n + 2 ELSE MaxSurfaces

(* A slip: the pool keeps what it had.                                     *)
PoolKept(count) ==
    [s \in Surface |-> IF s < count THEN free[s] + 1 ELSE free[s]]

(* SurfacePool::Reset                                                      *)
PoolReset(count) == [s \in Surface |-> IF s < count THEN 1 ELSE 0]

(* kConfigChange and Configure, when msvdx_decode_configure succeeds: the  *)
(* surfaces are new ones at other decoder addresses, so the MTX finishes a *)
(* late picture elsewhere (MsvdxMemory) ...                                *)
ConfigChange ==
    /\ phase = "decoding"
    /\ current = {}
    /\ AllShown
    /\ \E n \in DpbSizes :
          /\ dpbSize' = n
          /\ surfaces' = Count(n)
          /\ free' = PoolReset(Count(n))
    /\ dpb' = {}
    /\ lists' \in {{}, lists}
    /\ held' = (held \/ lists' # {})
    /\ content' = [s \in Surface |-> 0]
    /\ late' = {}
    /\ UNCHANGED <<phase, fed, stamps, current, shown, output>>

(* ... and when it fails: the surfaces are gone and the pool is not told.  *)
ConfigFails ==
    /\ phase = "decoding"
    /\ current = {}
    /\ AllShown
    /\ \E n \in DpbSizes : dpbSize' = n
    /\ surfaces' = 0
    /\ lists' \in {{}, lists}
    /\ free' = Given(Alive \ lists')
    /\ dpb' = {}
    /\ content' = [s \in Surface |-> 0]
    /\ late' = {}
    /\ phase' = "failed"
    /\ UNCHANGED <<fed, stamps, current, shown, held, output>>

(* A slip: Take without its test for an empty pool.                        *)
CreateUnchecked ==
    /\ phase = "decoding"
    /\ dpbSize > 0
    /\ current = {}
    /\ \A p \in dpb : p.buf # fed
    /\ fed \notin shown
    /\ \E s \in Surface :
          /\ free' = [free EXCEPT ![s] = @ - 1]
          /\ current' = {Picture(fed, s)}
    /\ UNCHANGED <<phase, fed, stamps, surfaces, dpbSize, dpb, lists, shown,
                   content, late, held, output>>

(* CreateH264Picture: SurfacePool::Take.                                   *)
CreatePicture ==
    /\ phase = "decoding"
    /\ dpbSize > 0
    /\ current = {}
    /\ \A p \in dpb : p.buf # fed
    /\ fed \notin shown
    /\ \E s \in Surface :
          /\ free[s] > 0
          /\ free' = [free EXCEPT ![s] = @ - 1]
          /\ current' = {Picture(fed, s)}
    /\ UNCHANGED <<phase, fed, stamps, surfaces, dpbSize, dpb, lists, shown,
                   content, late, held, output>>

(* Take returned -1: kRanOutOfSurfaces.                                    *)
RunOut ==
    /\ phase = "decoding"
    /\ dpbSize > 0
    /\ current = {}
    /\ \A s \in Surface : free[s] = 0
    /\ phase' = "ran out"
    /\ UNCHANGED <<fed, stamps, surfaces, dpbSize, free, current, dpb, lists,
                   shown, content, late, held, output>>

(* SubmitFrameMetadata: the decoder's reference lists are the new          *)
(* picture's, and msvdx_decode_begin takes its surface.                    *)
SubmitFrameMetadata ==
    /\ phase = "decoding"
    /\ \E p \in current : p.surface < surfaces
    /\ \E refs \in SUBSET dpb :
          /\ lists' = refs
          /\ free' = Given(lists \ (refs \cup dpb))
    /\ phase' = "submitted"
    /\ UNCHANGED <<fed, stamps, surfaces, dpbSize, current, dpb, shown,
                   content, late, held, output>>

(* SubmitSlice and SubmitDecode succeed: the surface holds the picture.    *)
(* The MTX works in order, so it is done with earlier ones.                *)
SubmitDecode ==
    /\ phase = "submitted"
    /\ \E p \in current : content' = [content EXCEPT ![p.surface] = p.buf]
    /\ late' = {}
    /\ phase' = "decoded"
    /\ UNCHANGED <<fed, stamps, surfaces, dpbSize, free, current, dpb, lists,
                   shown, held, output>>

(* H264Decoder stores the picture once the DPB has room for it, or drops   *)
(* it when it has been output and is no reference.                         *)
StorePicture ==
    /\ phase = "decoded"
    /\ \/ /\ Cardinality(dpb) < dpbSize
          /\ dpb' = dpb \cup current
          /\ UNCHANGED free
       \/ /\ \A p \in current : p.buf \in shown
          /\ free' = Given(current)
          /\ UNCHANGED dpb
    /\ current' = {}
    /\ phase' = "decoding"
    /\ UNCHANGED <<fed, stamps, surfaces, dpbSize, lists, shown, content, late,
                   held, output>>

(* One of them fails, as msvdx_decode_begin does for a surface that is not *)
(* configured: kDecodeError.  SubmitDecode may have timed out.             *)
DecodeFails ==
    /\ phase \in {"decoding", "submitted"}
    /\ current # {}
    /\ \/ late' = late
       \/ phase = "submitted" /\ late' = late \cup current
    /\ phase' = "failed"
    /\ UNCHANGED <<fed, stamps, surfaces, dpbSize, free, current, dpb, lists,
                   shown, content, held, output>>

(* The MTX finishes a picture nobody waits for.                            *)
LateWrite(p) ==
    /\ content' = [content EXCEPT ![p.surface] = p.buf]
    /\ late' = late \ {p}
    /\ UNCHANGED <<phase, fed, stamps, surfaces, dpbSize, free, current, dpb,
                   lists, shown, held, output>>

(* The picture that is decoded and not yet in the DPB.                     *)
Decoded == IF phase = "decoded" THEN current ELSE {}

(* Output: msvdx_decode_read, the timestamp, the copy.                     *)
Output(p) ==
    /\ phase \in {"decoding", "decoded", "flushing"}
    /\ p.buf \notin shown
    /\ shown' = shown \cup {p.buf}
    /\ output' =
          IF p.surface < surfaces
          THEN output \cup {[buf |-> p.buf, shows |-> content[p.surface],
                             stamp |-> IF p.buf \in stamps THEN p.buf ELSE 0]}
          ELSE output
    /\ UNCHANGED <<phase, fed, stamps, surfaces, dpbSize, free, current, dpb,
                   lists, content, late, held>>

(* The decoder's DPB lets go of a picture that was output (sliding window, *)
(* IDR, or no longer a reference).                                         *)
LeaveDpb(p) ==
    /\ phase \in {"decoding", "decoded", "flushing"}
    /\ p.buf \in shown
    /\ dpb' = dpb \ {p}
    /\ free' = Given({p} \ lists)
    /\ UNCHANGED <<phase, fed, stamps, surfaces, dpbSize, current, lists,
                   shown, content, late, held, output>>

(* A slip: the newest timestamps go.                                       *)
TrimNewest(S) == {i \in S : Cardinality({j \in S : j < i}) < KeptStamps}

(* timestamps_.erase(timestamps_.begin()) while it is too long.            *)
Trim(S) == {i \in S : Cardinality({j \in S : j > i}) < KeptStamps}

(* kRanOutOfStreamData: the buffer is used up.                             *)
BufferDone ==
    /\ phase = "decoding"
    /\ current = {}
    /\ \A p \in dpb : p.buf \in shown \/ fed < p.buf + Reorder
    /\ stamps' = Trim(stamps)
    /\ phase' = "idle"
    /\ UNCHANGED <<fed, surfaces, dpbSize, free, current, dpb, lists, shown,
                   content, late, held, output>>

(* Decode of the end-of-stream buffer: H264Decoder::Flush outputs what is  *)
(* left and empties the DPB.                                               *)
Flush ==
    /\ phase = "idle"
    /\ phase' = "flushing"
    /\ UNCHANGED <<fed, stamps, surfaces, dpbSize, free, current, dpb, lists,
                   shown, content, late, held, output>>

FlushDone ==
    /\ phase = "flushing"
    /\ AllShown
    /\ free' = Given(dpb \ lists)
    /\ dpb' = {}
    /\ phase' = "idle"
    /\ UNCHANGED <<fed, stamps, surfaces, dpbSize, current, lists, shown,
                   content, late, held, output>>

(* Reset, also out of a failure: the decoder drops every picture, and the  *)
(* timestamps are forgotten.                                               *)
Reset ==
    /\ phase \in {"idle", "failed", "ran out"}
    /\ free' = Given(Alive)
    /\ current' = {}
    /\ dpb' = {}
    /\ lists' = {}
    /\ stamps' = {}
    /\ phase' = "idle"
    /\ UNCHANGED <<fed, surfaces, dpbSize, shown, content, late,
                   held, output>>

-----------------------------------------------------------------------------
Next ==
    \/ Initialize \/ Decode \/ ConfigChange \/ ConfigFails
    \/ CreatePicture \/ RunOut \/ SubmitFrameMetadata \/ SubmitDecode
    \/ StorePicture \/ DecodeFails
    \/ \E p \in late : LateWrite(p)
    \/ \E p \in dpb \cup Decoded : Output(p)
    \/ \E p \in dpb : LeaveDpb(p)
    \/ BufferDone \/ Flush \/ FlushDone \/ Reset

Spec == Init /\ [][Next]_vars

-----------------------------------------------------------------------------
Pictures == [buf : Nat, surface : Surface]

(* Surfaces are taken only when there is one, and every picture names a    *)
(* surface of the pool (SurfacePool::Take, msvdx_decode_begin's test).     *)
TypeOK ==
    /\ phase \in {"idle", "decoding", "submitted", "decoded", "flushing",
                 "failed", "ran out"}
    /\ fed \in Nat
    /\ stamps \in SUBSET Nat
    /\ surfaces \in 0 .. MaxSurfaces
    /\ dpbSize \in DpbSizes \cup {0}
    /\ free \in [Surface -> Nat]
    /\ current \in SUBSET Pictures
    /\ dpb \in SUBSET Pictures
    /\ lists \in SUBSET Pictures
    /\ shown \in SUBSET Nat
    /\ late \in SUBSET Pictures
    /\ held \in BOOLEAN
    /\ content \in [Surface -> Nat]
    /\ output \in SUBSET [buf : Nat, shows : Nat, stamp : Nat]

(* Two pictures alive never share a surface, a surface in use is not free, *)
(* and a free one is free once (SurfacePool's Take and Give), as long as   *)
(* no picture outlives its configuration.                                  *)
SurfaceExclusive ==
    ~held =>
        /\ \A p, q \in Alive : p.surface = q.surface => p = q
        /\ \A p \in Alive : free[p.surface] = 0
        /\ \A s \in Surface : free[s] <= 1

(* Every frame shows the picture it was decoded from, however long the     *)
(* picture waited in the DPB for its turn, and though its surface may have *)
(* been given back by a picture the MTX had not finished.                  *)
OwnPixels == ~held => \A o \in output : o.shows = o.buf

(* ... and carries that picture's timestamp, though timestamps_ is trimmed.*)
OwnStamp == \A o \in output : o.stamp = o.buf

(* Configure's two extra surfaces are enough: Take always finds one while  *)
(* the DPB respects its size (the comment at kRanOutOfSurfaces), unless a  *)
(* failed configuration has left none at all.                              *)
NeverRunsOut == phase = "ran out" => surfaces = 0

=============================================================================

----------------------------- MODULE H264Stream -----------------------------
(***************************************************************************)
(* psb_H264.c at work on a stream: its calls write the commands of         *)
(* MsvdxEncode and keep the references of H264References, both in one      *)
(* step.  What a slice's reference chunks say and how long they are go     *)
(* together here.                                                          *)
(***************************************************************************)
EXTENDS MsvdxEncode, H264References

VARIABLES
    stream,     \* the stream being decoded
    begun       \* history, bounded: pictures and configurations so far

vars == <<encodeVars, refVars, stream, begun>>

Init ==
    /\ EncodeInit
    /\ RefInit
    /\ stream \in Streams
    /\ begun = 0

(* msvdx_decode_begin: psb_H264_BeginPicture and the parameters.           *)
Begin(p) ==
    /\ begun < stream.length
    /\ BeginPicture(p)
    /\ PictureParam(p.refs)
    /\ begun' = begun + 1
    /\ UNCHANGED stream

(* ... when the colocated buffer cannot be allocated.                      *)
BeginFails(p) ==
    /\ pc = "idle"
    /\ begun < stream.length
    /\ PictureParamFails(p.refs)
    /\ begun' = begun + 1
    /\ UNCHANGED <<encodeVars, stream>>

(* msvdx_decode_slice                                                      *)
DecodeSlice(s) ==
    /\ Slice(s)
    /\ SliceRefers(s, picture.refs)
    /\ UNCHANGED <<stream, begun>>

(* psb_context_submit_cmdbuf at the end of psb__H264_process_slice.        *)
SubmitSlice ==
    /\ FlushFirst \/ Submit
    /\ UNCHANGED <<refVars, stream, begun>>

(* msvdx_decode_end.                                                       *)
End ==
    /\ EndPicture
    /\ PictureEnds(count > 0)
    /\ UNCHANGED <<stream, begun>>

(* The decoder is Reset, or a slice was refused: the picture is dropped.   *)
GiveUp ==
    /\ stream.drops
    /\ DropPicture
    /\ PictureEnds(FALSE)
    /\ UNCHANGED <<stream, begun>>

(* msvdx_decode_configure, between two pictures.                           *)
Configure ==
    /\ pc = "idle"
    /\ begun \in 1 .. stream.length - 1
    /\ NewContext
    /\ NewSurfaces
    /\ begun' = begun + 1
    /\ UNCHANGED stream

Next ==
    \/ \E p \in stream.pictures : Begin(p) \/ BeginFails(p)
    \/ \E s \in picture.slices : DecodeSlice(s)
    \/ SubmitSlice
    \/ End
    \/ GiveUp
    \/ Configure

Spec == Init /\ [][Next]_vars

(* The cursors are what they can be, and every list index has its range.   *)
TypeOK ==
    /\ EncodeTypeOK
    /\ RefTypeOK
    /\ stream \in Streams
    /\ begun \in 0 .. stream.length
=============================================================================

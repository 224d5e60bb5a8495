----------------------------- MODULE PictureApi -----------------------------
(***************************************************************************)
(* What msvdx_decode.h promises its callers, without command buffers, rings *)
(* and fences: "One picture: begin (the target surface and the picture     *)
(* parameters), one call per slice, end. [...] end() sends everything and  *)
(* waits for the hardware. 0 on success."                                  *)
(***************************************************************************)
EXTENDS Naturals

CONSTANT BitstreamSlices   \* slices that fit the bitstream buffer

VARIABLES
    pic,         \* the number of the last picture begun
    inPicture,   \* between begin and the return of end
    slices,      \* slices of picture pic accepted so far
    executed,    \* those of them the hardware has executed, on their own data
    result       \* what the last end() returned: "none", "ok" or "fail"

apiVars == <<pic, inPicture, slices, executed, result>>

ApiInit ==
    /\ pic = 0
    /\ inPicture = FALSE
    /\ slices = 0
    /\ executed = {}
    /\ result = "none"

ApiBegin ==
    /\ pic' = pic + 1
    /\ inPicture' = TRUE
    /\ slices' = 0
    /\ executed' = {}
    /\ result' = "none"

ApiSlice ==
    /\ inPicture
    /\ slices < BitstreamSlices
    /\ slices' = slices + 1
    /\ UNCHANGED <<pic, inPicture, executed, result>>

ApiExecute ==
    /\ \E s \in (1 .. slices) \ executed : executed' = executed \cup {s}
    /\ UNCHANGED <<pic, inPicture, slices, result>>

ApiEndOk ==
    /\ inPicture
    /\ executed = 1 .. slices
    /\ inPicture' = FALSE
    /\ result' = "ok"
    /\ UNCHANGED <<pic, slices, executed>>

ApiEndFail ==
    /\ inPicture
    /\ inPicture' = FALSE
    /\ result' = "fail"
    /\ UNCHANGED <<pic, slices, executed>>

(* The caller drops the picture: its own stream ended or was reset.        *)
ApiAbandon ==
    /\ inPicture
    /\ inPicture' = FALSE
    /\ UNCHANGED <<pic, slices, executed, result>>

ApiNext ==
    \/ ApiBegin \/ ApiSlice \/ ApiExecute
    \/ ApiEndOk \/ ApiEndFail \/ ApiAbandon

ApiSpec == ApiInit /\ [][ApiNext]_apiVars

=============================================================================

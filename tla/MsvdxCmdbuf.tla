---------------------------- MODULE MsvdxCmdbuf ----------------------------
(***************************************************************************)
(* One H.264 picture on its way to the MSVDX: msvdx_decode_begin, _slice   *)
(* and _end (msvdx_decode.c), the slice path of psb_H264.c, the command    *)
(* buffer and its batch of messages (psb_cmdbuf_host.c), the host-to-MTX   *)
(* ring (msvdx.c, module MtxRing) and, as the environment, the MTX         *)
(* firmware that takes messages off the ring, executes them one at a time  *)
(* and answers.                                                            *)
(*                                                                         *)
(* A message stands for the FW_VA_RENDER message of one slice.  What it    *)
(* points at is kept apart, because it is overwritten apart: `commands' is *)
(* what the command buffer holds, `bits' what the bitstream buffer holds.  *)
(***************************************************************************)
EXTENDS MtxRing, Sequences, FiniteSets

CONSTANTS
    Batch,            \* entries of psb_cmdbuf_s.msgs (16)
    BitstreamSlices,  \* slices that fit BITSTREAM_SIZE
    MaxPictures,      \* bound: pictures begun by a careful caller
    MaxCareless,      \* bound: pictures begun by a careless one
    Callers           \* the kinds of caller to consider, see `careless'

ASSUME CmdbufAssumption ==
    /\ Batch \in Nat \ {0}
    /\ BitstreamSlices \in Nat
    /\ MaxPictures \in Nat
    /\ MaxCareless \in Nat
    /\ Callers \in SUBSET BOOLEAN

VARIABLES
    careless,    \* the caller may drop a picture before end(), and may begin
                 \* another after a failed end()
    pc,          \* "idle", "picture", or "send", "wait" inside a flush
    inEnd,       \* the flush under way was called by end(), not by a submit
    pic,         \* pictures begun
    slices,      \* slices of the current picture accepted so far
    result,      \* what the last end() returned
    msgs,        \* cmdbuf->msgs[0 .. cmd_count - 1]
    attached,    \* obj_context->cmdbuf # NULL
    sent,        \* psb_context_flush_cmdbuf's loop index
    fence,       \* sFence, the next fence number
    commands,    \* the slices whose commands the command buffer holds
    bits,        \* bits[s]: the picture whose s-th slice is in the bitstream
    running,     \* the message the MTX is executing
    replies,     \* the MTX-to-host ring, oldest first
    ran          \* history: what the MTX has executed

host == <<careless, pc, inEnd, pic, slices, result, msgs, attached, sent,
          fence>>
memory == <<commands, bits>>
mtx == <<running, replies, ran>>
vars == <<host, memory, mtx, ring>>

Slot == 1 .. BitstreamSlices

Id(p, s) == [pic |-> p, slice |-> s]

(* A message as it goes on the ring: its fence, and whether it is the one  *)
(* of its batch that asks for an answer (FW_DXVA_RENDER_HOST_INT).         *)
Sent(id, f, last) == [id |-> id, fence |-> f, last |-> last]

Reply(kind, f) == [kind |-> kind, fence |-> f]

Ids == [pic : Nat, slice : Nat]
Messages == [id : Ids, fence : Nat, last : BOOLEAN]
Replies == [kind : {"completed", "failed", "panic"}, fence : Nat]

ASSUME EmptyAssumption == Empty \notin Messages

Init ==
    /\ careless \in Callers
    /\ pc = "idle"
    /\ inEnd = FALSE
    /\ pic = 0
    /\ slices = 0
    /\ result = "none"
    /\ msgs = << >>
    /\ attached = FALSE
    /\ sent = 0
    /\ fence = 1
    /\ commands = {}
    /\ bits = [s \in Slot |-> 0]
    /\ running = Empty
    /\ replies = << >>
    /\ ran = {}
    /\ RingInit

-----------------------------------------------------------------------------
(* msvdx_decode_begin: the surface and the parameters are recorded and the *)
(* bitstream is filled from its start again.                               *)
Begin ==
    /\ pc = "idle"
    /\ result = "fail" => careless
    /\ pic < IF careless THEN MaxCareless ELSE MaxPictures
    /\ pic' = pic + 1
    /\ slices' = 0
    /\ result' = "none"
    /\ pc' = "picture"
    /\ UNCHANGED <<careless, inEnd, msgs, attached, sent, fence, memory, mtx,
                   ring>>

(* A slip: the command buffer is started over for every slice.             *)
NextCmdbufCleared(id) == {id}

(* psb_context_get_next_cmdbuf starts the command buffer over when no      *)
(* message is waiting to be sent.                                          *)
NextCmdbuf(id) == IF msgs = << >> THEN {id} ELSE commands \cup {id}

(* msvdx_decode_slice up to psb_context_submit_cmdbuf: the slice's data is *)
(* copied and its commands are written.                                    *)
WriteSlice ==
    /\ pc = "picture"
    /\ slices < BitstreamSlices
    /\ slices' = slices + 1
    /\ bits' = [bits EXCEPT ![slices + 1] = pic]
    /\ commands' = NextCmdbuf(Id(pic, slices + 1))
    /\ UNCHANGED <<careless, inEnd, pic, result, fence>>

BatchFull == Len(msgs) >= Batch

(* psb_context_submit_cmdbuf: the message joins the batch ...              *)
SliceQueued ==
    /\ WriteSlice
    /\ ~BatchFull
    /\ msgs' = Append(msgs, Id(pic, slices + 1))
    /\ attached' = TRUE
    /\ UNCHANGED <<pc, sent, mtx, ring>>

(* ... or, when the batch is full, waits for the batch to be flushed.      *)
SliceFlushes ==
    /\ WriteSlice
    /\ BatchFull
    /\ attached' = TRUE
    /\ inEnd' = FALSE
    /\ sent' = 0
    /\ pc' = "send"
    /\ UNCHANGED <<msgs, mtx, ring>>

(* psb_context_flush_cmdbuf as msvdx_decode_end calls it: nothing to do    *)
(* without a command buffer or a message ...                               *)
NothingToFlush == ~attached \/ msgs = << >>

EndEmpty ==
    /\ pc = "picture"
    /\ NothingToFlush
    /\ pc' = "idle"
    /\ result' = "ok"
    /\ UNCHANGED <<careless, inEnd, pic, slices, msgs, attached, sent, fence,
                   memory, mtx, ring>>

(* A slip: the loop index stays where the last flush left it.              *)
EndFlushesOn ==
    /\ pc = "picture"
    /\ ~NothingToFlush
    /\ inEnd' = TRUE
    /\ pc' = "send"
    /\ UNCHANGED <<careless, pic, slices, result, msgs, attached, sent, fence,
                   memory, mtx, ring>>

(* ... else the loop over the messages starts.                             *)
EndFlushes ==
    /\ pc = "picture"
    /\ ~NothingToFlush
    /\ inEnd' = TRUE
    /\ sent' = 0
    /\ pc' = "send"
    /\ UNCHANGED <<careless, pic, slices, result, msgs, attached, fence,
                   memory, mtx, ring>>

(* The caller drops the picture it began (a slice was refused because the  *)
(* bitstream is full, or the stream is reset); nothing below is told.      *)
GiveUp ==
    /\ careless
    /\ pc = "picture"
    /\ pc' = "idle"
    /\ UNCHANGED <<careless, inEnd, pic, slices, result, msgs, attached, sent,
                   fence, memory, mtx, ring>>

-----------------------------------------------------------------------------
(* psb_context_flush_cmdbuf's end: the batch is forgotten whatever came of *)
(* it.  end() returns what it got; a submit ignores it and puts its own    *)
(* message first in the batch.                                             *)
FlushReturns(r) ==
    /\ attached' = FALSE
    /\ IF inEnd
       THEN /\ msgs' = << >>
            /\ pc' = "idle"
            /\ result' = r
       ELSE /\ msgs' = << Id(pic, slices) >>
            /\ pc' = "picture"
            /\ result' = result
    /\ UNCHANGED <<careless, inEnd, pic, slices, sent, memory>>

SendMessage ==
    /\ pc = "send"
    /\ LET last == sent + 1 = Len(msgs)
       IN  /\ Put(Sent(msgs[sent + 1], fence, last))
           /\ pc' = IF last THEN "wait" ELSE "send"
    /\ sent' = sent + 1
    /\ fence' = fence + 1
    /\ UNCHANGED <<careless, inEnd, pic, slices, result, msgs, attached,
                   memory, mtx>>

SendRefused ==
    /\ pc = "send"
    /\ Refuses
    /\ fence' = fence + 1
    /\ FlushReturns("fail")
    /\ UNCHANGED <<mtx, ring>>

(* A slip: any reply will do.                                              *)
AnswersAny(r) == TRUE

(* wait_for_fence.  The fence it waits for is the last one handed out.     *)
Answers(r) == r.fence = fence - 1

(* A slip: the kind of the reply is not looked at.                         *)
VerdictOk(r) == "ok"

(* The reply ends the wait: its own fence, or a message id that reports    *)
(* trouble with no fence in particular (VA_MSGID_CMD_UNSUPPORTED and up).  *)
Verdict(r) ==
    IF r.kind = "completed" THEN "ok" ELSE "fail"

Ends(r) == r.kind = "panic" \/ Answers(r)

WaitAnswered ==
    /\ pc = "wait"
    /\ replies # << >>
    /\ Ends(Head(replies))
    /\ FlushReturns(Verdict(Head(replies)))
    /\ replies' = Tail(replies)
    /\ UNCHANGED <<fence, running, ran, ring>>

(* A late reply for an earlier fence is read and dropped.                  *)
WaitSkips ==
    /\ pc = "wait"
    /\ replies # << >>
    /\ ~Ends(Head(replies))
    /\ replies' = Tail(replies)
    /\ UNCHANGED <<host, memory, running, ran, ring>>

(* A slip: the wait has no end.                                            *)
WaitForever ==
    /\ pc = "wait"
    /\ replies = << >>
    /\ UNCHANGED vars

(* No reply in two seconds.                                                *)
WaitTimesOut ==
    /\ pc = "wait"
    /\ replies = << >>
    /\ FlushReturns("fail")
    /\ UNCHANGED <<fence, mtx, ring>>

-----------------------------------------------------------------------------
(* The firmware.  It frees the ring's words before it executes.            *)
MtxTakes ==
    /\ running = Empty
    /\ Take
    /\ running' = NextUnread
    /\ UNCHANGED <<host, memory, replies, ran>>

MtxSkipsPad ==
    /\ running = Empty
    /\ SkipPad
    /\ UNCHANGED <<host, memory, mtx>>

(* What the DMA engine fetches is what was written for this slice.         *)
Intact(id) == id \in commands /\ bits[id.slice] = id.pic

(* It reads the commands and the slice's data from memory as they are now. *)
Executed ==
    ran' = ran \cup {[id |-> running.id, fence |-> running.fence,
                      intact |-> Intact(running.id)]}

(* Only the last message of a batch is answered when all went well.        *)
MtxCompletes ==
    /\ running # Empty
    /\ Executed
    /\ replies' = IF running.last
                  THEN Append(replies, Reply("completed", running.fence))
                  ELSE replies
    /\ running' = Empty
    /\ UNCHANGED <<host, memory, ring>>

(* A failed slice is answered by CMD_FAILED, a hardware panic by its id.   *)
MtxFails ==
    /\ running # Empty
    /\ Executed
    /\ \E kind \in {"failed", "panic"} :
          replies' = Append(replies, Reply(kind, running.fence))
    /\ running' = Empty
    /\ UNCHANGED <<host, memory, ring>>

-----------------------------------------------------------------------------
Caller ==
    \/ Begin \/ SliceQueued \/ SliceFlushes \/ EndEmpty \/ EndFlushes \/ GiveUp
Flush ==
    \/ SendMessage \/ SendRefused \/ WaitAnswered \/ WaitSkips \/ WaitTimesOut
Mtx == MtxTakes \/ MtxSkipsPad \/ MtxCompletes \/ MtxFails

Next == Caller \/ Flush \/ Mtx

Spec == Init /\ [][Next]_vars

(* The host's thread runs; nothing is assumed of the hardware.             *)
FairSpec == Spec /\ WF_vars(Flush)

-----------------------------------------------------------------------------
(* The batch has no more than msgs[] holds.  A flush has a command buffer, *)
(* its loop index is that of a message while it sends and past the last    *)
(* one when it waits, and a submit only flushes a full batch.              *)
BatchOK ==
    /\ Len(msgs) <= Batch
    /\ pc \in {"send", "wait"} => attached
    /\ pc = "send" => sent < Len(msgs)
    /\ pc = "wait" => sent = Len(msgs)
    /\ pc \in {"send", "wait"} /\ ~inEnd => Len(msgs) = Batch

(* The state is what the C variables and the registers can hold, and the   *)
(* loop over the batch that psb_context_flush_cmdbuf runs stays inside it. *)
TypeOK ==
    /\ BatchOK
    /\ careless \in BOOLEAN
    /\ pc \in {"idle", "picture", "send", "wait"}
    /\ inEnd \in BOOLEAN
    /\ pic \in Nat
    /\ slices \in 0 .. BitstreamSlices
    /\ result \in {"none", "ok", "fail"}
    /\ msgs \in Seq(Ids)
    /\ attached \in BOOLEAN
    /\ sent \in Nat
    /\ fence \in Nat
    /\ commands \in SUBSET Ids
    /\ bits \in [Slot -> Nat]
    /\ running \in Messages \cup {Empty}
    /\ replies \in Seq(Replies)
    /\ ran \in SUBSET [id : Ids, fence : Nat, intact : BOOLEAN]
    /\ buf \in [Index -> Messages \cup {Empty}]
    /\ rd \in Index
    /\ wr \in Index

(* end() implements its promise: it returns 0 only once the hardware has   *)
(* executed every slice of the picture on that slice's own data, whatever  *)
(* timed out, failed or was given up before (msvdx_decode.h).              *)
Api == INSTANCE PictureApi WITH
    inPicture <- pc # "idle",
    executed  <- {r.id.slice : r \in {q \in ran : q.intact /\ q.id.pic = pic}}

ImplementsApi == Api!ApiSpec

(* The hardware always reads the command buffer and the bitstream as they  *)
(* were written for the slice it executes (msvdx_decode.c: "Every slice of *)
(* one picture stays here until msvdx_decode_end()"), for a caller that    *)
(* ends every picture and stops at the first failure.                      *)
OwnData == ~careless => \A r \in ran : r.intact

(* Even when the ring overruns, a message is executed at most once and     *)
(* never after one that was sent later (COMMS_TO_MTX_RD only moves on).    *)
ExecutesInOrder ==
    [][running' # running /\ running' # Empty =>
          \A r \in ran : r.fence < running'.fence]_vars

(* A call of end() or of slice() that flushes returns, whether the MTX     *)
(* answers, answers late, or never does.                                   *)
FlushEnds == (pc \in {"send", "wait"}) ~> (pc \in {"idle", "picture"})

(* "end() sends everything and waits for the hardware.  0 on success"      *)
(* (msvdx_decode.h): when it returns 0 every slice of the picture was      *)
(* executed, however many there were and however late the MTX read them.   *)
EndMeansExecuted ==
    pc = "idle" /\ result = "ok" =>
        \A s \in 1 .. slices : \E r \in ran : r.intact /\ r.id = Id(pic, s)

(* What msvdx_decode.h says of end(): when it returns 0 everything has     *)
(* been sent, so no message of the picture is left in the batch.           *)
EndSendsEverything == pc = "idle" /\ result = "ok" => msgs = << >>

=============================================================================

----------------------------- MODULE MtxChannel -----------------------------
(***************************************************************************)
(* The ring of MtxRing between a host that sends (psb_context_flush_cmdbuf *)
(* through msvdx_send) and the MTX that reads, at the grain of the         *)
(* registers: msvdx_send reads the two indices first and acts on what it   *)
(* read, and when it must wrap it publishes the pad before the message.    *)
(*                                                                         *)
(* The host keeps at most `window' messages sent and not yet taken; the    *)
(* code's own bound on that number is one batch of cmdbuf->msgs, 16.       *)
(* `queue' is the history of what was sent and not taken; the ring must    *)
(* agree with it.                                                          *)
(***************************************************************************)
EXTENDS MtxRing, Sequences

CONSTANTS
    Windows,     \* the bounds on messages in flight to consider
    MaxMessage   \* bound: messages are numbered 1 .. MaxMessage

ASSUME ChannelAssumption ==
    /\ Windows \in SUBSET Nat
    /\ MaxMessage \in Nat
    /\ Empty = 0

VARIABLES
    window,      \* messages in flight that the host allows itself
    sender,      \* "idle", or where msvdx_send is
    seenRd,      \* the rd that msvdx_send read on entry
    next,        \* the number of the next message
    queue,       \* history: sent and not yet taken
    taken        \* what the MTX took last

vars == <<buf, rd, wr, window, sender, seenRd, next, queue, taken>>

Message == 1 .. MaxMessage

Init ==
    /\ RingInit
    /\ window \in Windows
    /\ sender = "idle"
    /\ seenRd = 0
    /\ next = 1
    /\ queue = << >>
    /\ taken = Empty

(* msvdx_send's first half: it reads COMMS_TO_MTX_RD and _WRT.             *)
SendBegin ==
    /\ sender = "idle"
    /\ next <= MaxMessage
    /\ Len(queue) < window
    /\ seenRd' = rd
    /\ sender' = IF Fits(wr) THEN "write" ELSE "wrap"
    /\ UNCHANGED <<buf, rd, wr, window, next, queue, taken>>

(* No room before the end and the firmware was at 0: give up.              *)
SendRefused ==
    /\ sender = "wrap"
    /\ seenRd = 0
    /\ sender' = "idle"
    /\ UNCHANGED <<buf, rd, wr, window, seenRd, next, queue, taken>>

(* Otherwise the pad is written and published: the write index is 0.       *)
SendPad ==
    /\ sender = "wrap"
    /\ seenRd # 0
    /\ wr' = 0
    /\ sender' = "write"
    /\ UNCHANGED <<buf, rd, window, seenRd, next, queue, taken>>

(* Two slips: the index advanced by the message's bytes, and not at all.   *)
SendWriteBytes ==
    /\ sender = "write"
    /\ buf' = [buf EXCEPT ![wr] = next]
    /\ wr' = (wr + 4 * MsgWords) % RingWords
    /\ queue' = Append(queue, next)
    /\ next' = next + 1
    /\ sender' = "idle"
    /\ UNCHANGED <<rd, window, seenRd, taken>>

SendWriteHidden ==
    /\ sender = "write"
    /\ buf' = [buf EXCEPT ![wr] = next]
    /\ queue' = Append(queue, next)
    /\ next' = next + 1
    /\ sender' = "idle"
    /\ UNCHANGED <<rd, wr, window, seenRd, taken>>

(* The message, then the index; the firmware sees it when the index moves. *)
SendWrite ==
    /\ sender = "write"
    /\ buf' = [buf EXCEPT ![wr] = next]
    /\ wr' = Step(wr)
    /\ queue' = Append(queue, next)
    /\ next' = next + 1
    /\ sender' = "idle"
    /\ UNCHANGED <<rd, window, seenRd, taken>>

(* The MTX takes the message its index points at.                          *)
MtxTake ==
    /\ Take
    /\ taken' = NextUnread
    /\ queue' = IF queue = << >> THEN queue ELSE Tail(queue)
    /\ UNCHANGED <<window, sender, seenRd, next>>

MtxSkipPad ==
    /\ SkipPad
    /\ UNCHANGED <<window, sender, seenRd, next, queue, taken>>

Next ==
    \/ SendBegin \/ SendRefused \/ SendPad \/ SendWrite
    \/ MtxTake \/ MtxSkipPad

Spec == Init /\ [][Next]_vars

(* The MTX keeps reading while the ring shows it something.                *)
FairSpec == Spec /\ WF_vars(MtxTake \/ MtxSkipPad)

-----------------------------------------------------------------------------
(* Where a message, or the pad behind the last one, may begin.             *)
Boundary == Index \cap {k * MsgWords : k \in 0 .. RingWords \div MsgWords}

(* The indices stay on the ring and, whatever the window, at the beginning *)
(* of a message or of the pad; the history is of messages sent.            *)
TypeOK ==
    /\ buf \in [Index -> Message \cup {Empty}]
    /\ rd \in Boundary
    /\ wr \in Boundary
    /\ window \in Windows
    /\ sender \in {"idle", "wrap", "write"}
    /\ seenRd \in Index
    /\ next \in 1 .. MaxMessage + 1
    /\ queue \in Seq(Message)
    /\ taken \in Message \cup {Empty}

(* The ring has room for what the host keeps in flight, whatever the pad.  *)
Roomy == window < RingWords \div MsgWords

(* What msvdx.h says of msvdx_send, for any window: a ring that looks empty*)
(* is empty, wr never catches up with rd from behind.                      *)
EmptyMeansEmpty == rd = wr => queue = << >>

(* Whatever the window, every time the read index passes over a message,   *)
(* that message was sent after the one taken before: an overrun loses      *)
(* messages, but none is taken twice and none out of order.                *)
TakenInOrder ==
    [][(rd' # rd /\ Fits(rd)) \/ taken' # taken => taken' > taken]_vars

(* While there is room the ring implements the queue: the MTX takes every  *)
(* message that msvdx_send accepted once, and in order.                    *)
Queue == INSTANCE MessageQueue

IsQueue ==
    /\ Queue!QueueInit
    /\ [][Roomy => Queue!QueueNext]_<<queue, taken>>

(* ... and it does take it.                                                *)
SentIsTaken == \A m \in Message : (Roomy /\ m < next) ~> (taken >= m)

=============================================================================

------------------------------ MODULE MtxRing ------------------------------
(***************************************************************************)
(* The host-to-MTX message ring of msvdx.c (COMMS_TO_MTX_BUF): msvdx_send  *)
(* on the host's side, the firmware's reads on the other.  The indices are *)
(* word indices, as in the registers COMMS_TO_MTX_RD and COMMS_TO_MTX_WRT; *)
(* a message stands whole at the index of its first word, because only one *)
(* kind of message is ever sent (FW_VA_RENDER, MsgWords words).            *)
(*                                                                         *)
(* The ring has no count: rd = wr reads as empty, and msvdx_send compares  *)
(* rd with 0 only, and only when it must wrap.  How many messages may be   *)
(* unread before a send goes wrong is what MtxChannel is about.            *)
(***************************************************************************)
EXTENDS Naturals

CONSTANTS
    RingWords,   \* NUM_WORDS_MTX_BUF (100 in msvdx.c)
    MsgWords,    \* words of a FW_VA_RENDER message (8)
    Empty        \* what a ring word holds before the first message

ASSUME RingAssumption ==
    /\ RingWords \in Nat \ {0}
    /\ MsgWords \in Nat \ {0}
    /\ MsgWords <= RingWords

VARIABLES
    buf,         \* the message whose first word is at this index
    rd,          \* COMMS_TO_MTX_RD, written by the firmware
    wr           \* COMMS_TO_MTX_WRT, written by the host

ring == <<buf, rd, wr>>

Index == 0 .. RingWords - 1

RingInit ==
    /\ buf = [i \in Index |-> Empty]
    /\ rd = 0
    /\ wr = 0

(* A slip at the end of the ring: the index alone is tested.               *)
FitsAtIndex(i) == i < RingWords

(* A message never straddles the end of the ring.                          *)
Fits(i) == i + MsgWords <= RingWords

Step(i) == IF i + MsgWords = RingWords THEN 0 ELSE i + MsgWords

MayWrap == rd # 0

(* A slip: the index advanced by the message's bytes.                      *)
PutBytes(m) ==
    /\ Fits(wr) \/ MayWrap
    /\ buf' = [buf EXCEPT ![wr] = m]
    /\ wr' = (wr + 4 * MsgWords) % RingWords
    /\ rd' = rd

(* msvdx_send returning 0: a pad word if the message does not fit before   *)
(* the end, then the message, then the new write index.                    *)
Put(m) ==
    /\ Fits(wr) \/ MayWrap
    /\ LET at == IF Fits(wr) THEN wr ELSE 0
       IN  /\ buf' = [buf EXCEPT ![at] = m]
           /\ wr' = Step(at)
    /\ rd' = rd

(* msvdx_send returning 1.                                                 *)
Refuses == ~Fits(wr) /\ ~MayWrap

(* The firmware: an unread pad word sends it back to the start ...         *)
SkipPad ==
    /\ rd # wr
    /\ ~Fits(rd)
    /\ rd' = 0
    /\ UNCHANGED <<buf, wr>>

(* ... and an unread message is taken.                                     *)
Unread == rd # wr /\ Fits(rd)

NextUnread == buf[rd]

Take ==
    /\ Unread
    /\ rd' = Step(rd)
    /\ UNCHANGED <<buf, wr>>

=============================================================================

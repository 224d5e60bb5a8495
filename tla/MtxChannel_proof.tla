--------------------------- MODULE MtxChannel_proof ---------------------------
(***************************************************************************)
(* Theorems about MtxChannel, for a ring and messages of any size and for  *)
(* any number of messages in flight: with fewer in flight than slots the   *)
(* ring implements a queue, and with more it still repeats nothing.        *)
(*                                                                         *)
(* The argument is in slots: the ring has Slots of them, and what does not *)
(* fill one more is the pad.  Every lap of the host fills each slot once,  *)
(* so a slot behind the write index holds a message of this lap and one    *)
(* ahead of it a message of the lap before, whatever the MTX has done; and *)
(* between the read and the write index stand the newest messages.         *)
(***************************************************************************)
EXTENDS MtxChannel, TLAPS

Slots == RingWords \div MsgWords

Pos(k) == k * MsgWords

(* How many slots the read index r is behind the write index w.            *)
Ahead(r, w) == IF r <= w THEN w - r ELSE w + Slots - r

(* The first lap, or a later one.                                          *)
Laps(r, w) ==
    \/ /\ next = w + 1
       /\ r <= w
       /\ \A k \in w .. Slots - 1 : buf[Pos(k)] = Empty
    \/ /\ next >= w + Slots + 1
       /\ \A k \in w .. Slots - 1 : buf[Pos(k)] = next - (w + Slots - k)

(* The ring's state, the indices standing on slots r and w.                *)
RingIs(r, w) ==
    /\ rd = Pos(r)
    /\ wr = Pos(w)
    /\ Laps(r, w)
    /\ \A k \in 0 .. w - 1 : buf[Pos(k)] = next - (w - k)
    /\ taken < next - Ahead(r, w)
    /\ Roomy => /\ Len(queue) = Ahead(r, w)
                /\ \A i \in 1 .. Len(queue) :
                      queue[i] = next - 1 - Len(queue) + i

(* What msvdx_send knows once it has begun.                                *)
SenderIs ==
    /\ sender = "write" => Fits(wr)
    /\ sender = "wrap" => ~Fits(wr)
    /\ sender # "idle" => Len(queue) < window /\ next <= MaxMessage

(* The types of the variables, the indices being anywhere on the ring.     *)
Typed ==
    /\ buf \in [Index -> Message \cup {Empty}]
    /\ rd \in Index
    /\ wr \in Index
    /\ window \in Windows
    /\ sender \in {"idle", "wrap", "write"}
    /\ seenRd \in Index
    /\ next \in 1 .. MaxMessage + 1
    /\ queue \in Seq(Message)
    /\ taken \in Message \cup {Empty}

(* RingIs puts the indices on slots, which is all TypeOK adds to Typed.    *)
IInv ==
    /\ Typed
    /\ SenderIs
    /\ \E r, w \in 0 .. Slots : RingIs(r, w)

-----------------------------------------------------------------------------
(* A ring has at least one slot, and less than one is left over.           *)
LEMMA SlotsAre ==
    /\ Slots \in Nat \ {0}
    /\ Slots * MsgWords <= RingWords
    /\ RingWords < Slots * MsgWords + MsgWords
BY RingAssumption DEF Slots

(* Slot k ends where the next begins, and fits if it is one of them.       *)
LEMMA SlotIs ==
    ASSUME NEW k \in 0 .. Slots
    PROVE  /\ Pos(k) \in Nat
           /\ Pos(k) + MsgWords = Pos(k + 1)
           /\ Fits(Pos(k)) <=> k < Slots
           /\ k < Slots => Pos(k) \in Index
<1>1. MsgWords \in Nat \ {0} /\ RingWords \in Nat \ {0}
  BY RingAssumption
<1>2. Pos(k) \in Nat /\ Pos(k) + MsgWords = Pos(k + 1)
  BY <1>1, SlotsAre DEF Pos
<1>3. CASE k = Slots
  BY <1>1, <1>2, <1>3, SlotsAre DEF Pos, Fits
<1>4. CASE k < Slots
  <2>1. (k + 1) * MsgWords <= Slots * MsgWords
    BY <1>1, <1>4, SlotsAre
  <2>2. QED
    BY <1>1, <1>2, <1>4, <2>1, SlotsAre DEF Pos, Fits, Index
<1>5. QED
  BY <1>2, <1>3, <1>4, SlotsAre

(* Two slots are two places.                                               *)
LEMMA SlotsDiffer ==
    ASSUME NEW j \in 0 .. Slots, NEW k \in 0 .. Slots, Pos(j) = Pos(k)
    PROVE  j = k
<1>1. ASSUME NEW a \in Nat, NEW b \in Nat, a < b
      PROVE  a * MsgWords < b * MsgWords
  <2>1. (a + 1) * MsgWords <= b * MsgWords
    BY <1>1, RingAssumption
  <2>2. (a + 1) * MsgWords = a * MsgWords + MsgWords
    BY RingAssumption
  <2>3. a * MsgWords \in Nat /\ b * MsgWords \in Nat
    BY RingAssumption
  <2>4. QED
    BY <2>1, <2>2, <2>3, RingAssumption
<1>2. j \in Nat /\ k \in Nat /\ Pos(j) \in Nat /\ Pos(k) \in Nat
  BY SlotIs, SlotsAre
<1>3. ~(j < k) /\ ~(k < j)
  BY <1>1, <1>2 DEF Pos
<1>4. QED
  BY <1>2, <1>3

(* The first slot is at the start.                                         *)
LEMMA FirstSlot == Pos(0) = 0
BY RingAssumption DEF Pos

(* What the host keeps in flight, in slots.                                *)
LEMMA RoomIs ==
    ASSUME Typed
    PROVE  /\ Roomy <=> window < Slots
           /\ window \in Nat /\ Len(queue) \in Nat
BY ChannelAssumption DEF Roomy, Slots, Typed

(* An index moves on to the next slot, or from the last one to the first.  *)
LEMMA StepIs ==
    ASSUME NEW k \in 0 .. Slots - 1
    PROVE  \/ Step(Pos(k)) = Pos(k + 1) /\ Pos(k + 1) \in Index
           \/ Step(Pos(k)) = Pos(0) /\ k + 1 = Slots
              /\ Pos(k + 1) \notin Index
<1>1. /\ k \in 0 .. Slots /\ k + 1 \in 0 .. Slots
      /\ Pos(k) \in Nat /\ Pos(k + 1) \in Nat
      /\ Pos(k) + MsgWords = Pos(k + 1)
      /\ Fits(Pos(k))
  BY SlotsAre, SlotIs
<1>2. CASE Pos(k) + MsgWords = RingWords
  <2>1. ~Fits(Pos(k + 1))
    BY <1>1, <1>2, RingAssumption DEF Fits
  <2>2. k + 1 = Slots
    BY <1>1, <2>1, SlotIs, SlotsAre
  <2>3. Pos(k + 1) = RingWords
    BY <1>1, <1>2
  <2>4. Pos(k + 1) \notin Index
    BY <2>3, RingAssumption DEF Index
  <2>5. QED
    BY <1>2, <2>2, <2>4, FirstSlot DEF Step
<1>3. CASE Pos(k) + MsgWords # RingWords
  BY <1>1, <1>3, RingAssumption DEF Step, Fits, Index
<1>4. QED
  BY <1>2, <1>3

(* How far apart two slots may be.                                         *)
LEMMA AheadIs ==
    ASSUME NEW r \in 0 .. Slots, NEW w \in 0 .. Slots
    PROVE  /\ Ahead(r, w) \in 0 .. Slots
           /\ Ahead(r, w) = 0 => r = w \/ r = Slots
BY SlotsAre DEF Ahead

-----------------------------------------------------------------------------
(* Nothing has been sent.                                                  *)
LEMMA InitHolds == Init => IInv
<1> SUFFICES ASSUME Init PROVE IInv
  OBVIOUS
<1>1. /\ 0 \in Index /\ Slots \in Nat \ {0} /\ MaxMessage \in Nat
      /\ Empty = 0
  BY RingAssumption, ChannelAssumption, SlotsAre DEF Index
<1>2. Typed
  BY <1>1 DEF Init, RingInit, Typed, Message
<1>3. SenderIs
  BY DEF Init, SenderIs
<1>4. \A k \in 0 .. Slots - 1 : Pos(k) \in Index
  BY <1>1, SlotIs
<1>5. RingIs(0, 0)
  <2>1. Laps(0, 0)
    BY <1>1, <1>4 DEF Init, RingInit, Laps
  <2>2. QED
    BY <1>1, <2>1, FirstSlot DEF Init, RingInit, RingIs, Ahead
<1>6. QED
  BY <1>1, <1>2, <1>3, <1>5 DEF IInv

(* A message begins to be sent; the ring is as before.                     *)
LEMMA BeginKeeps ==
    ASSUME IInv, SendBegin \/ SendRefused
    PROVE  IInv'
<1>1. /\ UNCHANGED <<buf, rd, wr, window, next, queue, taken>>
      /\ sender' \in {"idle", "write", "wrap"}
      /\ seenRd' \in Index
      /\ sender' = "write" => Fits(wr)
      /\ sender' = "wrap" => ~Fits(wr)
      /\ sender' # "idle" => Len(queue) < window /\ next <= MaxMessage
  BY DEF SendBegin, SendRefused, IInv, Typed, SenderIs
<1>2. Typed' /\ SenderIs'
  BY <1>1 DEF IInv, Typed, SenderIs
<1>3. PICK r, w \in 0 .. Slots : RingIs(r, w)
  BY DEF IInv
<1>4. RingIs(r, w)'
  BY <1>1, <1>3 DEF RingIs, Laps, Roomy
<1>5. QED
  BY <1>2, <1>4 DEF IInv

(* The host goes back to the start: it is one lap on, in the same place.   *)
LEMMA PadKeeps ==
    ASSUME IInv, SendPad
    PROVE  IInv'
<1>1. /\ sender = "wrap" /\ wr' = 0 /\ sender' = "write"
      /\ UNCHANGED <<buf, rd, window, seenRd, next, queue, taken>>
  BY DEF SendPad
<1>2. PICK r, w \in 0 .. Slots : RingIs(r, w)
  BY DEF IInv
<1>3. w = Slots
  BY <1>1, <1>2, SlotIs, SlotsAre DEF IInv, SenderIs, RingIs
<1>4. /\ Slots \in Nat \ {0} /\ 0 \in 0 .. Slots /\ 0 \in Index
      /\ next \in Nat /\ taken \in Nat /\ Fits(0)
  <2>1. 0 \in Index /\ Fits(0)
    BY RingAssumption DEF Index, Fits
  <2>2. QED
    BY <2>1, SlotsAre, ChannelAssumption DEF IInv, Typed, Message
<1>5. Typed' /\ SenderIs'
  BY <1>1, <1>4 DEF IInv, Typed, SenderIs
<1>6. RingIs(r, 0)'
  <2>1. /\ next >= Slots + 1
        /\ \A k \in 0 .. Slots - 1 : buf[Pos(k)] = next - (Slots - k)
    BY <1>2, <1>3, <1>4 DEF RingIs, Laps
  <2>2. Laps(r, 0)'
    BY <1>1, <1>4, <2>1 DEF Laps
  <2>3. r # 0 => Ahead(r, 0) = Ahead(r, w)
    BY <1>3, <1>4 DEF Ahead
  <2>4. r = 0 => Ahead(r, 0) = 0 /\ Ahead(r, w) = Slots
    BY <1>3, <1>4 DEF Ahead
  <2>5. Roomy => r # 0
    BY <1>1, <1>2, <1>4, <2>4, RoomIs DEF RingIs, IInv, SenderIs
  <2>6. QED
    BY <1>1, <1>2, <1>4, <2>2, <2>3, <2>4, <2>5, FirstSlot, SlotsAre
       DEF RingIs, Roomy
<1>7. QED
  BY <1>4, <1>5, <1>6 DEF IInv

(* What an index moved on by one slot is ahead of, and what it holds.      *)
LEMMA NextIs ==
    ASSUME NEW k \in 0 .. Slots - 1
    PROVE  \E j \in 0 .. Slots :
              /\ Step(Pos(k)) = Pos(j) /\ Step(Pos(k)) \in Index
              /\ \/ j = k + 1
                 \/ j = 0 /\ k + 1 = Slots /\ Pos(Slots) \notin Index
<1>1. 0 \in Index /\ k + 1 \in 0 .. Slots /\ 0 \in 0 .. Slots
  BY SlotsAre, RingAssumption DEF Index
<1>2. QED
  BY <1>1, StepIs, FirstSlot

(* The host writes into a slot, the next of this lap or the first of the   *)
(* next one.                                                               *)
LEMMA AheadGrows ==
    ASSUME NEW r \in 0 .. Slots, NEW w \in 0 .. Slots - 1,
           NEW v \in 0 .. Slots,
           \/ v = w + 1
           \/ v = 0 /\ w + 1 = Slots
    PROVE  /\ Ahead(r, v) <= Ahead(r, w) + 1
           /\ Ahead(r, w) < Slots - 1 => Ahead(r, v) = Ahead(r, w) + 1
BY SlotsAre DEF Ahead

LEMMA WriteKeeps ==
    ASSUME IInv, SendWrite
    PROVE  IInv'
<1>1. /\ sender = "write" /\ sender' = "idle"
      /\ buf' = [buf EXCEPT ![wr] = next]
      /\ wr' = Step(wr) /\ next' = next + 1
      /\ queue' = Append(queue, next)
      /\ UNCHANGED <<rd, window, seenRd, taken>>
  BY DEF SendWrite
<1>2. /\ Fits(wr) /\ Len(queue) < window /\ next \in Message
      /\ next \in Nat /\ taken \in Nat /\ Slots \in Nat \ {0}
      /\ buf \in [Index -> Message \cup {Empty}]
      /\ queue \in Seq(Message)
  BY <1>1, SlotsAre, ChannelAssumption DEF IInv, SenderIs, Typed, Message
<1>3. PICK r, w \in 0 .. Slots : RingIs(r, w)
  BY DEF IInv
<1>4. w \in 0 .. Slots - 1 /\ wr = Pos(w)
  BY <1>2, <1>3, SlotIs DEF RingIs
<1>5. PICK v \in 0 .. Slots :
        /\ wr' = Pos(v) /\ wr' \in Index
        /\ \/ v = w + 1
           \/ v = 0 /\ w + 1 = Slots
  <2>1. PICK v \in 0 .. Slots :
          /\ Step(Pos(w)) = Pos(v) /\ Step(Pos(w)) \in Index
          /\ \/ v = w + 1
             \/ v = 0 /\ w + 1 = Slots
    BY <1>3, <1>4, NextIs
  <2>2. wr' = Step(Pos(w))
    BY <1>1, <1>4
  <2>3. QED
    BY <2>1, <2>2
<1>6. /\ queue' \in Seq(Message)
      /\ Len(queue') = Len(queue) + 1 /\ Len(queue) \in Nat
      /\ \A i \in 1 .. Len(queue) : queue'[i] = queue[i]
      /\ queue'[Len(queue) + 1] = next
  BY <1>1, <1>2
<1>7. Typed' /\ SenderIs'
  BY <1>1, <1>2, <1>5, <1>6, ChannelAssumption
     DEF IInv, Typed, SenderIs, Message
<1>8. \A k \in 0 .. Slots - 1 :
         buf'[Pos(k)] = IF k = w THEN next ELSE buf[Pos(k)]
  <2>1. SUFFICES ASSUME NEW k \in 0 .. Slots - 1
                 PROVE  buf'[Pos(k)] = IF k = w THEN next ELSE buf[Pos(k)]
    OBVIOUS
  <2>2. Pos(k) \in Index /\ k \in 0 .. Slots
    BY <1>2, SlotIs
  <2>3. Pos(k) = Pos(w) => k = w
    BY <2>2, SlotsDiffer
  <2>4. QED
    BY <1>1, <1>2, <1>4, <2>2, <2>3
<1>9. /\ \A k \in 0 .. w - 1 : buf[Pos(k)] = next - (w - k)
      /\ \A k \in 0 .. w : buf'[Pos(k)] = next' - (w + 1 - k)
  <2>1. \A k \in 0 .. w - 1 : buf[Pos(k)] = next - (w - k)
    BY <1>3 DEF RingIs
  <2>2. ASSUME NEW k \in 0 .. w
        PROVE  buf'[Pos(k)] = next' - (w + 1 - k)
    <3>1. k \in 0 .. Slots - 1 /\ k \in Nat /\ w \in Nat
      BY <1>2, <1>4
    <3>2. CASE k = w
      BY <1>1, <1>2, <1>8, <3>1, <3>2
    <3>3. CASE k # w
      <4>1. k \in 0 .. w - 1
        BY <3>1, <3>3
      <4>2. buf'[Pos(k)] = next - (w - k)
        BY <1>8, <2>1, <3>1, <3>3, <4>1
      <4>3. QED
        BY <1>1, <1>2, <3>1, <4>2
    <3>4. QED
      BY <3>2, <3>3
  <2>3. QED
    BY <2>1, <2>2
<1>10. Laps(r, v)'
  <2>1. CASE v = w + 1
    BY <1>1, <1>2, <1>3, <1>4, <1>8, <2>1 DEF RingIs, Laps
  <2>2. CASE v = 0 /\ w + 1 = Slots
    <3>1. \A k \in 0 .. Slots - 1 : buf'[Pos(k)] = next' - (0 + Slots - k)
      BY <1>2, <1>4, <1>9, <2>2
    <3>2. next' >= 0 + Slots + 1
      BY <1>1, <1>2, <1>3, <2>2 DEF RingIs, Laps
    <3>3. QED
      BY <2>2, <3>1, <3>2 DEF Laps
  <2>3. QED
    BY <1>5, <2>1, <2>2
<1>11. taken' < next' - Ahead(r, v)
  <2>1. taken < next - Ahead(r, w)
    BY <1>3 DEF RingIs
  <2>2. Ahead(r, v) <= Ahead(r, w) + 1
    BY <1>4, <1>5, AheadGrows
  <2>3. Ahead(r, v) \in Nat /\ Ahead(r, w) \in Nat
    BY <1>3, <1>5, SlotsAre, AheadIs
  <2>4. QED
    BY <1>1, <1>2, <2>1, <2>2, <2>3
<1>12. ASSUME Roomy
       PROVE  /\ Len(queue') = Ahead(r, v)
              /\ \A i \in 1 .. Len(queue') :
                    queue'[i] = next' - 1 - Len(queue') + i
  <2>1. /\ Len(queue) = Ahead(r, w)
        /\ \A i \in 1 .. Len(queue) : queue[i] = next - 1 - Len(queue) + i
    BY <1>3, <1>12 DEF RingIs
  <2>2. Ahead(r, w) < Slots - 1
    BY <1>2, <1>6, <1>12, <2>1, RoomIs DEF IInv
  <2>3. Len(queue') = Ahead(r, v)
    BY <1>4, <1>5, <1>6, <2>1, <2>2, AheadGrows
  <2>4. QED
    BY <1>1, <1>2, <1>6, <2>1, <2>3
<1>13. RingIs(r, v)'
  <2>1. \A k \in 0 .. v - 1 : buf'[Pos(k)] = next' - (v - k)
    BY <1>2, <1>4, <1>5, <1>9
  <2>2. QED
    BY <1>1, <1>3, <1>5, <1>10, <1>11, <1>12, <2>1 DEF RingIs, Roomy
<1>14. QED
  BY <1>7, <1>13 DEF IInv

(* The message the MTX finds is the oldest of those between the indices.   *)
LEMMA UnreadIs ==
    ASSUME Typed, NEW r \in 0 .. Slots, NEW w \in 0 .. Slots,
           RingIs(r, w), Unread
    PROVE  /\ r \in 0 .. Slots - 1
           /\ Ahead(r, w) \in 1 .. Slots
           /\ NextUnread = next - Ahead(r, w)
<1>1. r \in 0 .. Slots - 1 /\ r # w
  BY SlotIs, SlotsAre DEF Unread, RingIs
<1>2. Ahead(r, w) \in 1 .. Slots
  BY <1>1, AheadIs, SlotsAre
<1>3. CASE r < w
  BY <1>3, SlotsAre DEF RingIs, NextUnread, Ahead
<1>4. CASE w < r
  BY <1>1, <1>4, SlotsAre DEF RingIs, Laps, NextUnread, Ahead
<1>5. QED
  BY <1>1, <1>2, <1>3, <1>4, SlotsAre

LEMMA TakeKeeps ==
    ASSUME IInv, MtxTake
    PROVE  IInv'
<1>1. /\ Unread /\ rd' = Step(rd) /\ taken' = NextUnread
      /\ queue' = IF queue = << >> THEN queue ELSE Tail(queue)
      /\ UNCHANGED <<buf, wr, window, sender, seenRd, next>>
  BY DEF MtxTake, Take
<1>2. Typed /\ Slots \in Nat \ {0} /\ next \in Nat
  BY SlotsAre, ChannelAssumption DEF IInv, Typed
<1>3. PICK r, w \in 0 .. Slots : RingIs(r, w)
  BY DEF IInv
<1>4. /\ r \in 0 .. Slots - 1 /\ Ahead(r, w) \in 1 .. Slots
      /\ NextUnread = next - Ahead(r, w)
  BY <1>1, <1>2, <1>3, UnreadIs
<1>5. PICK v \in 0 .. Slots :
        /\ rd' = Pos(v) /\ rd' \in Index
        /\ \/ v = r + 1
           \/ v = 0 /\ r + 1 = Slots /\ Pos(Slots) \notin Index
  BY <1>1, <1>3, <1>4, NextIs DEF RingIs
<1>6. Ahead(v, w) = Ahead(r, w) - 1 /\ (r <= w => v <= w)
  <2>1. Pos(Slots) \notin Index => w # Slots
    BY <1>2, <1>3 DEF RingIs, Typed
  <2>2. r # w
    BY <1>1, <1>3 DEF RingIs, Unread
  <2>3. QED
    BY <1>2, <1>4, <1>5, <2>1, <2>2 DEF Ahead
<1>7. /\ queue' \in Seq(Message) /\ Len(queue') <= Len(queue)
      /\ Len(queue) \in Nat /\ Len(queue') \in Nat
      /\ Len(queue) # 0 => /\ Len(queue') = Len(queue) - 1
                           /\ \A i \in 1 .. Len(queue) - 1 :
                                 queue'[i] = queue[i + 1]
  BY <1>1, <1>2 DEF Typed
<1>8. NextUnread \in Message \cup {Empty}
  BY <1>2 DEF Typed, NextUnread
<1>9. Typed'
  BY <1>1, <1>2, <1>5, <1>7, <1>8 DEF Typed
<1>10. SenderIs'
  <2>1. window \in Nat
    BY <1>2, RoomIs
  <2>2. QED
    BY <1>1, <1>7, <2>1 DEF IInv, SenderIs
<1>11. RingIs(v, w)'
  <2>1. Laps(v, w)'
    BY <1>1, <1>3, <1>6 DEF RingIs, Laps
  <2>2. taken' < next' - Ahead(v, w)
    BY <1>1, <1>2, <1>4, <1>6
  <2>3. ASSUME Roomy
        PROVE  /\ Len(queue') = Ahead(v, w)
               /\ \A i \in 1 .. Len(queue') :
                     queue'[i] = next' - 1 - Len(queue') + i
    <3>1. /\ Len(queue) = Ahead(r, w)
          /\ \A i \in 1 .. Len(queue) : queue[i] = next - 1 - Len(queue) + i
      BY <1>3, <2>3 DEF RingIs
    <3>2. Len(queue') = Len(queue) - 1
      BY <1>4, <1>7, <3>1
    <3>3. QED
      <4>1. ASSUME NEW i \in 1 .. Len(queue')
            PROVE  queue'[i] = next' - 1 - Len(queue') + i
        <5>1. /\ i + 1 \in 1 .. Len(queue) /\ i \in 1 .. Len(queue) - 1
              /\ Len(queue) # 0
          BY <1>7, <3>2, <4>1
        <5>2. queue'[i] = queue[i + 1]
          BY <1>7, <5>1
        <5>3. queue[i + 1] = next - 1 - Len(queue) + (i + 1)
          BY <3>1, <5>1
        <5>4. QED
          <6>1. UNCHANGED next /\ next \in Nat /\ i \in Nat
            BY <1>1, <1>2, <1>7
          <6>2. Len(queue') = Len(queue) - 1 /\ Len(queue) \in Nat
            BY <1>7, <3>2
          <6>3. QED
            BY <5>2, <5>3, <6>1, <6>2
      <4>2. QED
        BY <1>6, <3>1, <3>2, <4>1
  <2>4. QED
    BY <1>1, <1>3, <1>5, <2>1, <2>2, <2>3 DEF RingIs, Roomy
<1>12. QED
  BY <1>9, <1>10, <1>11 DEF IInv

LEMMA SkipKeeps ==
    ASSUME IInv, MtxSkipPad
    PROVE  IInv'
<1>1. /\ rd # wr /\ ~Fits(rd) /\ rd' = 0
      /\ UNCHANGED <<buf, wr, window, sender, seenRd, next, queue, taken>>
  BY DEF MtxSkipPad, SkipPad
<1>2. PICK r, w \in 0 .. Slots : RingIs(r, w)
  BY DEF IInv
<1>3. r = Slots /\ w < Slots /\ Slots \in Nat \ {0}
  BY <1>1, <1>2, SlotIs, SlotsAre DEF RingIs
<1>4. 0 \in Index /\ 0 \in 0 .. Slots
  BY <1>3, RingAssumption DEF Index
<1>5. Typed' /\ SenderIs'
  BY <1>1, <1>4 DEF IInv, Typed, SenderIs
<1>6. Ahead(0, w) = Ahead(r, w)
  BY <1>3 DEF Ahead
<1>7. RingIs(0, w)'
  BY <1>1, <1>2, <1>3, <1>6, FirstSlot DEF RingIs, Laps, Roomy
<1>8. QED
  BY <1>4, <1>5, <1>7 DEF IInv

-----------------------------------------------------------------------------
(* All of it is kept by every step.                                        *)
LEMMA Inductive == Spec => []IInv
<1>1. Init => IInv
  BY InitHolds
<1>2. ASSUME IInv, [Next]_vars
      PROVE  IInv'
  <2>1. CASE UNCHANGED vars
    <3>1. PICK r, w \in 0 .. Slots : RingIs(r, w)
      BY <1>2 DEF IInv
    <3>2. RingIs(r, w)' /\ Typed' /\ SenderIs'
      BY <1>2, <2>1, <3>1
         DEF IInv, Typed, SenderIs, RingIs, Laps, Roomy, vars
    <3>3. QED
      BY <3>2 DEF IInv
  <2>2. QED
    BY <1>2, <2>1, BeginKeeps, PadKeeps, WriteKeeps, TakeKeeps, SkipKeeps
       DEF Next
<1>3. QED
  BY <1>1, <1>2, PTL DEF Spec

(* Both indices stay at the beginning of a slot or of the pad, and what is *)
(* in the ring was sent, however many messages are in flight.              *)
THEOREM TypeCorrect == Spec => []TypeOK
<1>1. IInv => TypeOK
  BY DEF IInv, Typed, RingIs, TypeOK, Boundary, Pos, Slots
<1>2. QED
  BY <1>1, Inductive, PTL

(* The MTX takes nothing twice and nothing older than what it took, however*)
(* many messages are in flight.                                            *)
THEOREM NothingRepeated == Spec => TakenInOrder
<1>1. ASSUME IInv, [Next]_vars
      PROVE  [(rd' # rd /\ Fits(rd)) \/ taken' # taken => taken' > taken]_vars
  <2>1. CASE UNCHANGED taken /\ (rd' = rd \/ ~Fits(rd))
    BY <2>1
  <2>2. CASE MtxTake
    <3>1. PICK r, w \in 0 .. Slots : RingIs(r, w)
      BY <1>1 DEF IInv
    <3>2. taken' = next - Ahead(r, w) /\ Ahead(r, w) \in 1 .. Slots
      BY <1>1, <2>2, <3>1, UnreadIs DEF IInv, MtxTake, Take
    <3>3. next \in Nat /\ taken \in Nat /\ Slots \in Nat
      BY <1>1, ChannelAssumption, SlotsAre DEF IInv, Typed, Message
    <3>4. taken < next - Ahead(r, w)
      BY <3>1 DEF RingIs
    <3>5. QED
      BY <3>2, <3>3, <3>4
  <2>3. QED
    BY <1>1, <2>1, <2>2
       DEF Next, SendBegin, SendRefused, SendPad, SendWrite, MtxSkipPad,
           SkipPad, vars
<1>2. QED
  BY <1>1, Inductive, PTL DEF Spec, TakenInOrder

(* With fewer messages in flight than slots, what looks empty is empty.    *)
THEOREM EmptyWhenRoomy == Spec => [](Roomy => EmptyMeansEmpty)
<1>1. ASSUME IInv, Roomy, rd = wr
      PROVE  queue = << >>
  <2>1. PICK r, w \in 0 .. Slots : RingIs(r, w)
    BY <1>1 DEF IInv
  <2>2. r = w
    BY <1>1, <2>1, SlotsDiffer DEF RingIs
  <2>3. Len(queue) = 0
    BY <1>1, <2>1, <2>2, SlotsAre DEF RingIs, Ahead
  <2>4. QED
    BY <1>1, <2>3 DEF IInv, Typed
<1>2. IInv => (Roomy => EmptyMeansEmpty)
  BY <1>1 DEF EmptyMeansEmpty
<1>3. QED
  BY <1>2, Inductive, PTL

(* With fewer messages in flight than slots the ring is a queue: the MTX   *)
(* takes what msvdx_send accepted, all of it, once and in order.           *)
THEOREM RingIsQueue == Spec => IsQueue
<1>1. Init => Queue!QueueInit
  BY ChannelAssumption DEF Init, Queue!QueueInit, Message
<1>2. ASSUME IInv, [Next]_vars
      PROVE  [Roomy => Queue!QueueNext]_<<queue, taken>>
  <2>1. CASE UNCHANGED <<queue, taken>>
    BY <2>1
  <2>2. CASE SendWrite
    <3>1. next \in Message
      BY <1>2, <2>2, ChannelAssumption
         DEF IInv, Typed, SenderIs, SendWrite, Message
    <3>2. QED
      BY <2>2, <3>1 DEF SendWrite, Queue!QueueNext, Queue!Enqueue
  <2>3. CASE MtxTake
    <3>1. SUFFICES ASSUME Roomy PROVE Queue!Dequeue
      BY DEF Queue!QueueNext
    <3>2. PICK r, w \in 0 .. Slots : RingIs(r, w)
      BY <1>2 DEF IInv
    <3>3. taken' = next - Ahead(r, w) /\ Ahead(r, w) \in 1 .. Slots
      BY <1>2, <2>3, <3>2, UnreadIs DEF IInv, MtxTake, Take
    <3>4. /\ Len(queue) = Ahead(r, w)
          /\ \A i \in 1 .. Len(queue) : queue[i] = next - 1 - Len(queue) + i
      BY <3>1, <3>2 DEF RingIs
    <3>5. next \in Nat /\ queue \in Seq(Message) /\ Slots \in Nat
      BY <1>2, ChannelAssumption, SlotsAre DEF IInv, Typed
    <3>6. queue # << >> /\ Head(queue) = queue[1]
      BY <3>3, <3>4, <3>5
    <3>7. Head(queue) = taken'
      BY <3>3, <3>4, <3>5, <3>6
    <3>8. QED
      BY <2>3, <3>6, <3>7 DEF MtxTake, Queue!Dequeue
  <2>4. QED
    BY <1>2, <2>1, <2>2, <2>3
       DEF Next, SendBegin, SendRefused, SendPad, MtxSkipPad, vars
<1>3. QED
  BY <1>1, <1>2, Inductive, PTL DEF Spec, IsQueue
=============================================================================

-------------------------- MODULE MsvdxCmdbuf_proof --------------------------
(***************************************************************************)
(* Theorems about MsvdxCmdbuf, for a ring, messages and a batch of any     *)
(* size and any number of pictures: a caller that ends every picture and   *)
(* stops at the first failure gets what msvdx_decode.h promises, as long   *)
(* as a picture has no more slices than the batch holds and fewer than the *)
(* ring has slots.  For any caller, and however often the ring overruns,   *)
(* nothing runs twice or after what was sent behind it.                    *)
(*                                                                         *)
(* The argument: such a caller begins a picture only when the MTX has      *)
(* nothing left to do, so what is on the ring is this picture's messages,  *)
(* in order, from the first one not taken to the last one sent; and a      *)
(* reply that carries the last fence can only come after all of them.      *)
(***************************************************************************)
EXTENDS MsvdxCmdbuf, TLAPS

(* decoder.cc is the careful caller.                                       *)
Careful == Callers \subseteq {FALSE}

(* The ring in slots of one message; what does not fill one is the pad.    *)
Slots == RingWords \div MsgWords

Pos(k) == k * MsgWords

(* A picture's messages fit the batch, and the ring with a slot to spare.  *)
Fitting == BitstreamSlices <= Batch /\ BitstreamSlices < Slots

(* How many slots the read index r is behind the write index w, and the    *)
(* j-th slot from r.                                                       *)
Ahead(r, w) == IF r <= w THEN w - r ELSE w + Slots - r

Place(r, j) == IF r + j < Slots THEN r + j ELSE r + j - Slots

-----------------------------------------------------------------------------
(* TypeOK but for BatchOK.                                                 *)
Typed ==
    /\ careless \in BOOLEAN
    /\ pc \in {"idle", "picture", "send", "wait"}
    /\ inEnd \in BOOLEAN
    /\ pic \in Nat
    /\ slices \in 0 .. BitstreamSlices
    /\ result \in {"none", "ok", "fail"}
    /\ msgs \in Seq(Ids)
    /\ attached \in BOOLEAN
    /\ sent \in Nat
    /\ fence \in Nat
    /\ commands \in SUBSET Ids
    /\ bits \in [Slot -> Nat]
    /\ running \in Messages \cup {Empty}
    /\ replies \in Seq(Replies)
    /\ ran \in SUBSET [id : Ids, fence : Nat, intact : BOOLEAN]
    /\ buf \in [Index -> Messages \cup {Empty}]
    /\ rd \in Index
    /\ wr \in Index

(* A flush under way has a message to send.                                *)
Sending == pc = "send" => sent < Len(msgs)

(* The k-th message of the picture, when the first one has fence f, and    *)
(* what is recorded of it.                                                 *)
Message(k, f) == Sent(Id(pic, k), f + k - 1, k = slices)

Record(k, f) == [id |-> Id(pic, k), fence |-> f + k - 1, intact |-> TRUE]

(* How many messages are done with when t were taken.                      *)
Ended(t) == IF running = Empty THEN t ELSE t - 1

(* t messages of the picture were taken, the others that were sent are on  *)
(* the ring between the slots r and w.                                     *)
InFlight(t, f, r, w) ==
    /\ rd = Pos(r) /\ wr = Pos(w)
    /\ t <= sent /\ Ahead(r, w) = sent - t
    /\ \A j \in 0 .. sent - t - 1 :
          buf[Pos(Place(r, j))] = Message(t + 1 + j, f)
    /\ running # Empty => t >= 1 /\ running = Message(t, f)
    /\ \A k \in 1 .. Ended(t) : Record(k, f) \in ran
    /\ \A i \in 1 .. Len(replies) : replies[i].fence < f + Ended(t)
    /\ pc \in {"send", "wait"} => fence = f + sent

Flying == \E t, f \in Nat, r, w \in 0 .. Slots : InFlight(t, f, r, w)

(* The MTX has nothing to do, and no reply is the next picture's.          *)
Quiet ==
    /\ \E r \in 0 .. Slots : rd = Pos(r)
    /\ rd = wr
    /\ running = Empty
    /\ \A i \in 1 .. Len(replies) : replies[i].fence < fence

(* Everything accepted of the picture is in the batch and in memory.       *)
Queued ==
    /\ Len(msgs) = slices
    /\ \A s \in 1 .. slices : msgs[s] = Id(pic, s)
    /\ slices > 0 => attached = TRUE

Written == \A s \in 1 .. slices : bits[s] = pic /\ Id(pic, s) \in commands

(* What was executed was executed on its own data, and is of pictures that *)
(* were begun.                                                             *)
Own ==
    \A q \in ran :
        /\ q.intact
        /\ q.id.pic <= pic
        /\ q.id.pic = pic => q.id.slice \in 1 .. slices

Executes == \A s \in 1 .. slices : \E q \in ran : q.intact /\ q.id = Id(pic, s)

(* What holds in each phase of a picture: between pictures, while slices   *)
(* come in, during the flush, and as long as the MTX may have work.        *)
AtRest ==
    pc = "idle" /\ result # "fail" =>
        Quiet /\ msgs = << >> /\ (result = "ok" => Executes)

Collecting ==
    pc = "picture" =>
        /\ Quiet /\ Queued /\ Written /\ result = "none"
        /\ \A q \in ran : q.id.pic < pic

Flushing ==
    pc \in {"send", "wait"} =>
        /\ Queued /\ inEnd = TRUE /\ result = "none"
        /\ pc = "wait" => sent = slices

Busy == pc \in {"send", "wait"} \/ (pc = "idle" /\ result = "fail")

Working == Busy => Written /\ Flying /\ sent <= slices

(* A ring that has a pad is written from its start only once.              *)
Wrapped == wr = 0 /\ Pos(Slots) \in Index => rd = 0

IInv ==
    /\ Typed /\ Sending /\ careless = FALSE
    /\ Wrapped /\ Own
    /\ AtRest /\ Collecting /\ Flushing /\ Working

-----------------------------------------------------------------------------
(* A ring has at least one slot, and less than one is left over.           *)
LEMMA SlotsAre ==
    /\ Slots \in Nat \ {0}
    /\ Slots * MsgWords <= RingWords
    /\ RingWords < Slots * MsgWords + MsgWords
BY RingAssumption DEF Slots

(* Slot k ends where the next begins, and fits if it is one of them.       *)
LEMMA SlotIs ==
    ASSUME NEW k \in 0 .. Slots
    PROVE  /\ Pos(k) \in Nat
           /\ Pos(k) + MsgWords = Pos(k + 1)
           /\ Fits(Pos(k)) <=> k < Slots
           /\ k < Slots => Pos(k) \in Index
<1>1. MsgWords \in Nat \ {0} /\ RingWords \in Nat \ {0}
  BY RingAssumption
<1>2. Pos(k) \in Nat /\ Pos(k) + MsgWords = Pos(k + 1)
  BY <1>1, SlotsAre DEF Pos
<1>3. CASE k = Slots
  BY <1>1, <1>2, <1>3, SlotsAre DEF Pos, Fits
<1>4. CASE k < Slots
  <2>1. (k + 1) * MsgWords <= Slots * MsgWords
    BY <1>1, <1>4, SlotsAre
  <2>2. QED
    BY <1>1, <1>2, <1>4, <2>1, SlotsAre DEF Pos, Fits, Index
<1>5. QED
  BY <1>2, <1>3, <1>4, SlotsAre

(* Two slots are two places.                                               *)
LEMMA SlotsDiffer ==
    ASSUME NEW j \in 0 .. Slots, NEW k \in 0 .. Slots, Pos(j) = Pos(k)
    PROVE  j = k
<1>1. ASSUME NEW a \in Nat, NEW b \in Nat, a < b
      PROVE  a * MsgWords < b * MsgWords
  <2>1. (a + 1) * MsgWords <= b * MsgWords
    BY <1>1, RingAssumption
  <2>2. (a + 1) * MsgWords = a * MsgWords + MsgWords
    BY RingAssumption
  <2>3. a * MsgWords \in Nat /\ b * MsgWords \in Nat
    BY RingAssumption
  <2>4. QED
    BY <2>1, <2>2, <2>3, RingAssumption
<1>2. j \in Nat /\ k \in Nat /\ Pos(j) \in Nat /\ Pos(k) \in Nat
  BY SlotIs, SlotsAre
<1>3. ~(j < k) /\ ~(k < j)
  BY <1>1, <1>2 DEF Pos
<1>4. QED
  BY <1>2, <1>3

(* The first slot is at the start.                                         *)
LEMMA FirstSlot == Pos(0) = 0 /\ 0 \in Index
BY RingAssumption DEF Pos, Index

(* An index moves on to the next slot, or from the last one to the first.  *)
LEMMA StepIs ==
    ASSUME NEW k \in 0 .. Slots - 1
    PROVE  \E j \in 0 .. Slots :
              /\ Step(Pos(k)) = Pos(j) /\ Step(Pos(k)) \in Index
              /\ \/ j = k + 1
                 \/ j = 0 /\ k + 1 = Slots /\ Pos(Slots) \notin Index
<1>1. /\ k \in 0 .. Slots /\ k + 1 \in 0 .. Slots /\ 0 \in 0 .. Slots
      /\ Pos(k) \in Nat /\ Pos(k + 1) \in Nat
      /\ Pos(k) + MsgWords = Pos(k + 1)
      /\ Fits(Pos(k))
  BY SlotsAre, SlotIs
<1>2. CASE Pos(k) + MsgWords = RingWords
  <2>1. ~Fits(Pos(k + 1))
    BY <1>1, <1>2, RingAssumption DEF Fits
  <2>2. k + 1 = Slots
    BY <1>1, <2>1, SlotIs, SlotsAre
  <2>3. Pos(Slots) = RingWords
    BY <1>1, <1>2, <2>2
  <2>4. Pos(Slots) \notin Index
    BY <2>3, RingAssumption DEF Index
  <2>5. Step(Pos(k)) = Pos(0)
    BY <1>2, FirstSlot DEF Step
  <2>6. QED
    BY <1>1, <2>2, <2>4, <2>5, FirstSlot
<1>3. CASE Pos(k) + MsgWords # RingWords
  <2>1. Step(Pos(k)) = Pos(k + 1) /\ Pos(k + 1) \in Index
    BY <1>1, <1>3, RingAssumption DEF Step, Fits, Index
  <2>2. QED
    BY <1>1, <2>1
<1>4. QED
  BY <1>2, <1>3

(* The slots from r on are slots, and different ones for less than a lap.  *)
LEMMA PlaceIs ==
    ASSUME NEW r \in 0 .. Slots, NEW j \in 0 .. Slots - 1
    PROVE  /\ Place(r, j) \in 0 .. Slots - 1
           /\ \A i \in 0 .. Slots - 1 : Place(r, i) = Place(r, j) => i = j
BY SlotsAre DEF Place

(* msvdx_send puts the message into the slot after those that are unread,  *)
(* if that leaves a slot to spare.                                         *)
LEMMA PutIs ==
    ASSUME NEW r \in 0 .. Slots, NEW w \in 0 .. Slots, NEW m,
           NEW S, buf \in [Index -> S],
           rd = Pos(r), wr = Pos(w), Ahead(r, w) + 1 < Slots, Put(m)
    PROVE  /\ rd' = rd /\ wr' \in Index
           /\ \E v \in 0 .. Slots :
                 wr' = Pos(v) /\ Ahead(r, v) = Ahead(r, w) + 1
           /\ wr' = 0 => Pos(Slots) \notin Index
           /\ buf'[Pos(Place(r, Ahead(r, w)))] = m
           /\ \A j \in 0 .. Ahead(r, w) - 1 :
                 buf'[Pos(Place(r, j))] = buf[Pos(Place(r, j))]
<1>1. /\ Slots \in Nat \ {0} /\ Ahead(r, w) \in 0 .. Slots - 1
      /\ Slots > 1
  BY SlotsAre DEF Ahead
<1>2. PICK a \in 0 .. Slots - 1 :
        /\ a = Place(r, Ahead(r, w))
        /\ a = IF w < Slots THEN w ELSE 0
        /\ buf' = [buf EXCEPT ![Pos(a)] = m]
        /\ wr' = Step(Pos(a))
        /\ rd' = rd
        /\ w = Slots => r # 0
  <2>1. Fits(wr) <=> w < Slots
    BY SlotIs
  <2>2. w = Slots => r # 0
    BY <1>1, <2>1, FirstSlot DEF Put, MayWrap
  <2>3. rd' = rd
    BY DEF Put
  <2>4. CASE w < Slots
    <3>1. w = Place(r, Ahead(r, w))
      BY <1>1, <2>4 DEF Place, Ahead
    <3>2. buf' = [buf EXCEPT ![Pos(w)] = m] /\ wr' = Step(Pos(w))
      BY <2>1, <2>4 DEF Put
    <3>3. w \in 0 .. Slots - 1 /\ (IF w < Slots THEN w ELSE 0) = w
          /\ w # Slots
      BY <1>1, <2>4
    <3>4. QED
      BY <2>3, <3>1, <3>2, <3>3
  <2>5. CASE w = Slots
    <3>1. 0 = Place(r, Ahead(r, w))
      BY <1>1, <2>2, <2>5 DEF Place, Ahead
    <3>2. ~Fits(wr) /\ ~(w < Slots)
      BY <1>1, <2>1, <2>5
    <3>3. buf' = [buf EXCEPT ![Pos(0)] = m] /\ wr' = Step(Pos(0))
      BY <3>2, FirstSlot DEF Put
    <3>4. 0 \in 0 .. Slots - 1 /\ (IF w < Slots THEN w ELSE 0) = 0
      BY <1>1, <3>2
    <3>5. QED
      BY <2>2, <2>3, <3>1, <3>3, <3>4
  <2>6. QED
    BY <1>1, <2>4, <2>5
<1>3. PICK v \in 0 .. Slots :
        /\ wr' = Pos(v) /\ wr' \in Index
        /\ \/ v = a + 1
           \/ v = 0 /\ a + 1 = Slots /\ Pos(Slots) \notin Index
  BY <1>2, StepIs
<1>4. Ahead(r, v) = Ahead(r, w) + 1
  BY <1>1, <1>2, <1>3 DEF Ahead
<1>5. Pos(a) \in Index
  BY <1>1, <1>2, SlotIs
<1>6. buf'[Pos(a)] = m
  BY <1>2, <1>5
<1>7. ASSUME NEW j \in 0 .. Ahead(r, w) - 1
      PROVE  buf'[Pos(Place(r, j))] = buf[Pos(Place(r, j))]
  <2>1. j \in 0 .. Slots - 1 /\ j # Ahead(r, w)
    BY <1>1
  <2>2. Place(r, j) \in 0 .. Slots - 1 /\ Place(r, j) # a
    BY <1>1, <1>2, <2>1, PlaceIs
  <2>3. Pos(Place(r, j)) # Pos(a)
    BY <1>1, <2>2, SlotsDiffer
  <2>4. QED
    BY <1>2, <2>3
<1>8. wr' = 0 => Pos(Slots) \notin Index
  <2>1. ASSUME wr' = 0
        PROVE  v = 0
    <3>1. 0 \in 0 .. Slots /\ Pos(v) = Pos(0)
      BY <1>1, <1>3, <2>1, FirstSlot
    <3>2. QED
      BY <1>3, <3>1, SlotsDiffer
  <2>2. QED
    BY <1>1, <1>3, <2>1
<1>9. QED
  BY <1>2, <1>3, <1>4, <1>6, <1>7, <1>8

(* The MTX takes what is in the first unread slot, and the others move up. *)
LEMMA TakeIs ==
    ASSUME NEW r \in 0 .. Slots, NEW w \in 0 .. Slots,
           rd = Pos(r), wr = Pos(w), wr \in Index, Ahead(r, w) < Slots, Take
    PROVE  /\ buf' = buf /\ wr' = wr /\ rd' \in Index
           /\ Ahead(r, w) > 0
           /\ NextUnread = buf[Pos(Place(r, 0))]
           /\ \E v \in 0 .. Slots :
                 /\ rd' = Pos(v) /\ Ahead(v, w) = Ahead(r, w) - 1
                 /\ \A j \in 0 .. Ahead(r, w) - 2 :
                       Place(v, j) = Place(r, j + 1)
<1>1. /\ rd # wr /\ Fits(rd) /\ rd' = Step(rd) /\ UNCHANGED <<buf, wr>>
  BY DEF Take, Unread
<1>2. r \in 0 .. Slots - 1 /\ r # w /\ Slots \in Nat \ {0}
  BY <1>1, SlotIs, SlotsAre
<1>3. PICK v \in 0 .. Slots :
        /\ rd' = Pos(v) /\ rd' \in Index
        /\ \/ v = r + 1
           \/ v = 0 /\ r + 1 = Slots /\ w # Slots
  BY <1>1, <1>2, StepIs
<1>4. Ahead(r, w) > 0 /\ Ahead(v, w) = Ahead(r, w) - 1
  BY <1>2, <1>3 DEF Ahead
<1>5. \A j \in 0 .. Ahead(r, w) - 2 : Place(v, j) = Place(r, j + 1)
  BY <1>2, <1>3 DEF Ahead, Place
<1>6. NextUnread = buf[Pos(Place(r, 0))]
  BY <1>2 DEF NextUnread, Place
<1>7. QED
  BY <1>1, <1>3, <1>4, <1>5, <1>6

(* Back at the start, it finds the same messages.                          *)
LEMMA SkipIs ==
    ASSUME NEW r \in 0 .. Slots, NEW w \in 0 .. Slots,
           rd = Pos(r), wr = Pos(w), SkipPad
    PROVE  /\ buf' = buf /\ wr' = wr
           /\ rd' = Pos(0) /\ rd' \in Index
           /\ Ahead(0, w) = Ahead(r, w)
           /\ \A j \in 0 .. Slots - 1 : Place(0, j) = Place(r, j)
<1>1. /\ rd # wr /\ ~Fits(rd) /\ rd' = 0 /\ UNCHANGED <<buf, wr>>
  BY DEF SkipPad
<1>2. r = Slots /\ w < Slots /\ Slots \in Nat \ {0}
  BY <1>1, SlotIs, SlotsAre
<1>3. QED
  BY <1>1, <1>2, FirstSlot DEF Ahead, Place

-----------------------------------------------------------------------------
(* The ring's part of the type, for what is sent and taken.                *)
RingType ==
    /\ buf \in [Index -> Messages \cup {Empty}]
    /\ rd \in Index
    /\ wr \in Index

LEMMA StepInRing ==
    ASSUME NEW i \in Index, Fits(i)
    PROVE  Step(i) \in Index
BY RingAssumption DEF Index, Fits, Step

LEMMA PutType ==
    ASSUME RingType, NEW m \in Messages, Put(m)
    PROVE  RingType'
<1>1. PICK at \in Index :
        Fits(at) /\ buf' = [buf EXCEPT ![at] = m] /\ wr' = Step(at)
  <2>1. 0 \in Index /\ Fits(0)
    BY RingAssumption DEF Index, Fits
  <2>2. CASE Fits(wr)
    BY <2>2 DEF Put, RingType
  <2>3. CASE ~Fits(wr)
    BY <2>1, <2>3 DEF Put
  <2>4. QED
    BY <2>2, <2>3
<1>2. wr' \in Index
  BY <1>1, StepInRing
<1>3. QED
  BY <1>1, <1>2 DEF Put, RingType, Index

LEMMA TakeType ==
    ASSUME RingType, Take
    PROVE  RingType' /\ NextUnread \in Messages \cup {Empty}
BY StepInRing DEF RingType, Take, Unread, NextUnread, Index

LEMMA SkipType ==
    ASSUME RingType, SkipPad
    PROVE  RingType'
BY RingAssumption DEF RingType, SkipPad, Index

(* What Typed says of the host's side.                                     *)
HostType ==
    /\ careless \in BOOLEAN
    /\ pc \in {"idle", "picture", "send", "wait"}
    /\ inEnd \in BOOLEAN
    /\ pic \in Nat
    /\ slices \in 0 .. BitstreamSlices
    /\ result \in {"none", "ok", "fail"}
    /\ msgs \in Seq(Ids)
    /\ attached \in BOOLEAN
    /\ sent \in Nat
    /\ fence \in Nat

(* ... and of the memory and the firmware's.                               *)
OtherType ==
    /\ commands \in SUBSET Ids
    /\ bits \in [Slot -> Nat]
    /\ running \in Messages \cup {Empty}
    /\ replies \in Seq(Replies)
    /\ ran \in SUBSET [id : Ids, fence : Nat, intact : BOOLEAN]

LEMMA TypeParts == Typed <=> HostType /\ OtherType /\ RingType
BY DEF Typed, HostType, OtherType, RingType

TypeInv == Typed /\ Sending

LEMMA TypeInit == Init => TypeInv
<1>1. RingInit => RingType
  BY RingAssumption DEF RingInit, RingType, Index
<1>2. Init => HostType /\ Sending
  <2>1. << >> \in Seq(Ids)
    OBVIOUS
  <2>2. careless \in Callers => careless \in BOOLEAN
    BY CmdbufAssumption
  <2>3. 0 \in 0 .. BitstreamSlices
    BY CmdbufAssumption
  <2>4. Init => Sending
    BY DEF Init, Sending
  <2>5. /\ Init => msgs \in Seq(Ids)
        /\ Init => careless \in BOOLEAN
    BY <2>1, <2>2 DEF Init
  <2>6. Init => HostType
    <3>1. Init => inEnd \in BOOLEAN /\ attached \in BOOLEAN
      BY DEF Init
    <3>2. Init => /\ pc = "idle" /\ pic = 0 /\ slices = 0
                  /\ result = "none" /\ sent = 0 /\ fence = 1
      BY DEF Init
    <3>3. QED
      BY <2>3, <2>5, <3>1, <3>2 DEF HostType
  <2>7. QED
    BY <2>4, <2>6
<1>3. Init => OtherType
  BY DEF Init, OtherType
<1>4. QED
  BY <1>1, <1>2, <1>3, TypeParts DEF Init, TypeInv

(* A slice is written: the part that both ways of submitting it share.     *)
LEMMA WriteSliceType ==
    ASSUME Typed, WriteSlice
    PROVE  /\ slices' \in 0 .. BitstreamSlices
           /\ Id(pic, slices + 1) \in Ids
           /\ commands' \in SUBSET Ids
           /\ bits' \in [Slot -> Nat]
<1>1. slices + 1 \in Slot /\ slices' = slices + 1 /\ slices + 1 \in Nat
  BY CmdbufAssumption DEF Typed, WriteSlice, Slot
<1>2. Id(pic, slices + 1) \in Ids
  BY <1>1 DEF Typed, Id, Ids
<1>3. commands' \in SUBSET Ids
  BY <1>2 DEF Typed, WriteSlice, NextCmdbuf
<1>4. bits' \in [Slot -> Nat]
  BY <1>1 DEF Typed, WriteSlice
<1>5. slices' \in 0 .. BitstreamSlices
  BY <1>1, CmdbufAssumption DEF Slot
<1>6. QED
  BY <1>2, <1>3, <1>4, <1>5

(* The end of a flush leaves a batch.                                      *)
LEMMA FlushReturnsType ==
    ASSUME HostType, NEW r \in {"ok", "fail"}, FlushReturns(r), fence' \in Nat
    PROVE  HostType' /\ Sending' /\ commands' = commands /\ bits' = bits
<1>1. Id(pic, slices) \in Ids
  BY CmdbufAssumption DEF HostType, Id, Ids
<1>2. << >> \in Seq(Ids) /\ << Id(pic, slices) >> \in Seq(Ids)
  BY <1>1
<1>3. msgs' \in Seq(Ids) /\ pc' \in {"idle", "picture"}
      /\ result' \in {"none", "ok", "fail"} /\ attached' \in BOOLEAN
  BY <1>2 DEF FlushReturns, HostType
<1>4. UNCHANGED <<careless, inEnd, pic, slices, sent, commands, bits>>
  BY DEF FlushReturns, memory
<1>5. QED
  BY <1>3, <1>4 DEF HostType, Sending

(* What the MTX records of an execution is a record.                       *)
LEMMA ExecutedType ==
    ASSUME OtherType, running # Empty, Executed
    PROVE  /\ ran' \in SUBSET [id : Ids, fence : Nat, intact : BOOLEAN]
           /\ running \in Messages
           /\ running.fence \in Nat /\ running.id \in Ids
<1>1. running \in Messages
  BY DEF OtherType
<1>2. running.id \in Ids /\ running.fence \in Nat
  BY <1>1 DEF Messages
<1>3. Intact(running.id) \in BOOLEAN
  BY DEF Intact
<1>4. [id |-> running.id, fence |-> running.fence,
       intact |-> Intact(running.id)]
        \in [id : Ids, fence : Nat, intact : BOOLEAN]
  BY <1>2, <1>3
<1>5. QED
  BY <1>1, <1>2, <1>4 DEF OtherType, Executed

LEMMA ReplyType ==
    ASSUME OtherType, NEW f \in Nat,
           NEW kind \in {"completed", "failed", "panic"}
    PROVE  Append(replies, Reply(kind, f)) \in Seq(Replies)
<1>1. Reply(kind, f) \in Replies
  BY DEF Reply, Replies
<1>2. QED
  BY <1>1 DEF OtherType

LEMMA TypeStep == TypeInv /\ [Next]_vars => TypeInv'
<1> SUFFICES ASSUME TypeInv, [Next]_vars
             PROVE  TypeInv'
  OBVIOUS
<1>0. HostType /\ OtherType /\ RingType /\ Sending /\ Typed
  BY TypeParts DEF TypeInv
<1> SUFFICES HostType' /\ OtherType' /\ RingType' /\ Sending'
  <2>1. Typed' <=> HostType' /\ OtherType' /\ RingType'
    BY DEF Typed, HostType, OtherType, RingType
  <2>2. QED
    BY <2>1 DEF TypeInv
<1>ring. ASSUME UNCHANGED ring PROVE RingType'
  BY <1>0, <1>ring DEF ring, RingType, Index
<1>other. ASSUME UNCHANGED <<memory, mtx>> PROVE OtherType'
  BY <1>0, <1>other DEF memory, mtx, OtherType
<1>host. ASSUME UNCHANGED host PROVE HostType' /\ Sending'
  BY <1>0, <1>host DEF host, HostType, Sending
<1>1. CASE Begin
  <2>1. HostType' /\ Sending'
    BY <1>0, <1>1, CmdbufAssumption DEF Begin, HostType, Sending
  <2>2. QED
    BY <1>1, <1>ring, <1>other, <2>1 DEF Begin
<1>2. CASE SliceQueued
  <2>1. UNCHANGED <<careless, inEnd, pic, result, fence, pc, sent, mtx, ring>>
        /\ pc = "picture"
    BY <1>2 DEF SliceQueued, WriteSlice
  <2>2. msgs' \in Seq(Ids) /\ attached' \in BOOLEAN
    BY <1>0, <1>2, WriteSliceType DEF SliceQueued, HostType
  <2>3. HostType' /\ Sending'
    BY <1>0, <1>2, <2>1, <2>2, WriteSliceType
       DEF SliceQueued, HostType, Sending
  <2>4. OtherType'
    BY <1>0, <1>2, <2>1, WriteSliceType DEF SliceQueued, OtherType, mtx
  <2>5. QED
    BY <1>ring, <2>1, <2>3, <2>4
<1>3. CASE SliceFlushes
  <2>1. UNCHANGED <<careless, pic, result, fence, msgs, mtx, ring>>
    BY <1>3 DEF SliceFlushes, WriteSlice
  <2>2. sent' < Len(msgs)
    BY <1>0, <1>3, CmdbufAssumption DEF SliceFlushes, BatchFull, HostType
  <2>3. HostType' /\ Sending'
    BY <1>0, <1>3, <2>1, <2>2, WriteSliceType
       DEF SliceFlushes, HostType, Sending
  <2>4. OtherType'
    BY <1>0, <1>3, <2>1, WriteSliceType DEF SliceFlushes, OtherType, mtx
  <2>5. QED
    BY <1>ring, <2>1, <2>3, <2>4
<1>4. CASE EndEmpty
  BY <1>0, <1>4, <1>ring, <1>other DEF EndEmpty, HostType, Sending
<1>5. CASE EndFlushes
  <2>1. sent' < Len(msgs)
    BY <1>0, <1>5 DEF EndFlushes, NothingToFlush, HostType
  <2>2. HostType' /\ Sending'
    BY <1>0, <1>5, <2>1 DEF EndFlushes, HostType, Sending
  <2>3. QED
    BY <1>5, <1>ring, <1>other, <2>2 DEF EndFlushes
<1>6. CASE GiveUp
  BY <1>0, <1>6, <1>ring, <1>other DEF GiveUp, HostType, Sending
<1>7. CASE SendMessage
  <2>1. PICK m : m = Sent(msgs[sent + 1], fence, sent + 1 = Len(msgs))
                 /\ Put(m)
    BY <1>7 DEF SendMessage
  <2>2. sent + 1 \in 1 .. Len(msgs) /\ msgs \in Seq(Ids) /\ fence \in Nat
    BY <1>0, <1>7 DEF SendMessage, Sending, HostType
  <2>3. msgs[sent + 1] \in Ids
    BY <2>2
  <2>4. m \in Messages
    BY <2>1, <2>2, <2>3 DEF Sent, Messages
  <2>5. RingType'
    BY <1>0, <2>1, <2>4, PutType
  <2>6. pc' = (IF sent + 1 = Len(msgs) THEN "wait" ELSE "send")
    BY <1>7 DEF SendMessage
  <2>7. HostType' /\ Sending'
    BY <1>0, <1>7, <2>2, <2>6 DEF SendMessage, HostType, Sending
  <2>8. QED
    BY <1>7, <1>other, <2>5, <2>7 DEF SendMessage
<1>8. CASE SendRefused
  <2>1. fence' \in Nat /\ FlushReturns("fail") /\ UNCHANGED <<mtx, ring>>
    BY <1>0, <1>8 DEF SendRefused, HostType
  <2>2. QED
    BY <1>0, <1>ring, <1>other, <2>1, FlushReturnsType DEF memory
<1>9. CASE WaitAnswered
  <2>1. PICK r \in {"ok", "fail"} : FlushReturns(r)
    BY <1>9 DEF WaitAnswered, Verdict
  <2>2. /\ replies # << >> /\ replies' = Tail(replies)
        /\ UNCHANGED <<fence, running, ran, ring>>
    BY <1>9 DEF WaitAnswered
  <2>3. fence' \in Nat
    BY <1>0, <2>2 DEF HostType
  <2>4. HostType' /\ Sending' /\ commands' = commands /\ bits' = bits
    BY <1>0, <2>1, <2>3, FlushReturnsType
  <2>5. OtherType'
    BY <1>0, <2>2, <2>4 DEF OtherType
  <2>6. QED
    BY <1>ring, <2>2, <2>4, <2>5
<1>10. CASE WaitSkips
  <2>1. /\ replies # << >> /\ replies' = Tail(replies)
        /\ UNCHANGED <<host, memory, running, ran, ring>>
    BY <1>10 DEF WaitSkips
  <2>2. OtherType'
    BY <1>0, <2>1 DEF OtherType, memory
  <2>3. QED
    BY <1>host, <1>ring, <2>1, <2>2
<1>11. CASE WaitTimesOut
  <2>1. fence' \in Nat /\ FlushReturns("fail") /\ UNCHANGED <<mtx, ring>>
    BY <1>0, <1>11 DEF WaitTimesOut, HostType
  <2>2. QED
    BY <1>0, <1>ring, <1>other, <2>1, FlushReturnsType DEF memory
<1>12. CASE MtxTakes
  <2>1. Take /\ running' = NextUnread
        /\ UNCHANGED <<host, memory, replies, ran>>
    BY <1>12 DEF MtxTakes
  <2>2. RingType' /\ running' \in Messages \cup {Empty}
    BY <1>0, <2>1, TakeType
  <2>3. OtherType'
    BY <1>0, <2>1, <2>2 DEF OtherType, memory
  <2>4. QED
    BY <1>host, <2>1, <2>2, <2>3
<1>13. CASE MtxSkipsPad
  BY <1>0, <1>13, <1>host, <1>other, SkipType DEF MtxSkipsPad
<1>14. CASE MtxCompletes
  <2>1. /\ running # Empty /\ Executed /\ running' = Empty
        /\ UNCHANGED <<host, memory, ring>>
        /\ \/ replies' = replies
           \/ replies' = Append(replies, Reply("completed", running.fence))
    BY <1>14 DEF MtxCompletes
  <2>2. replies' \in Seq(Replies)
    BY <1>0, <2>1, ExecutedType, ReplyType DEF OtherType
  <2>3. OtherType'
    BY <1>0, <2>1, <2>2, ExecutedType DEF OtherType, memory
  <2>4. QED
    BY <1>host, <1>ring, <2>1, <2>3
<1>15. CASE MtxFails
  <2>1. /\ running # Empty /\ Executed /\ running' = Empty
        /\ UNCHANGED <<host, memory, ring>>
    BY <1>15 DEF MtxFails
  <2>2. PICK kind \in {"failed", "panic"} :
          replies' = Append(replies, Reply(kind, running.fence))
    BY <1>15 DEF MtxFails
  <2>3. replies' \in Seq(Replies)
    BY <1>0, <2>1, <2>2, ExecutedType, ReplyType
  <2>4. OtherType'
    BY <1>0, <2>1, <2>3, ExecutedType DEF OtherType, memory
  <2>5. QED
    BY <1>host, <1>ring, <2>1, <2>4
<1>16. CASE UNCHANGED vars
  BY <1>16, <1>host, <1>ring, <1>other DEF vars
<1>17. QED
  BY <1>1, <1>2, <1>3, <1>4, <1>5, <1>6, <1>7, <1>8, <1>9, <1>10, <1>11,
     <1>12, <1>13, <1>14, <1>15, <1>16 DEF Next, Caller, Flush, Mtx

(* Only a submit that finds room makes the batch longer; a flush starts    *)
(* with a command buffer and a batch, a submit's with a full one, and ends *)
(* at the last message; after it the batch is empty or starts anew.        *)
LEMMA BatchStep == TypeInv /\ BatchOK /\ [Next]_vars => BatchOK'
<1> SUFFICES ASSUME TypeInv, BatchOK, [Next]_vars
             PROVE  BatchOK'
  OBVIOUS
<1>0. /\ msgs \in Seq(Ids) /\ Len(msgs) \in Nat /\ sent \in Nat
      /\ pc \in {"idle", "picture", "send", "wait"}
      /\ Batch \in Nat \ {0} /\ attached \in BOOLEAN /\ inEnd \in BOOLEAN
  BY CmdbufAssumption DEF TypeInv, Typed
<1>1. CASE Begin
  BY <1>1 DEF Begin, BatchOK
<1>2. CASE SliceQueued
  <2>1. Len(msgs') = Len(msgs) + 1 /\ Len(msgs) < Batch /\ pc' = "picture"
    BY <1>0, <1>2 DEF SliceQueued, WriteSlice, BatchFull
  <2>2. QED
    BY <1>0, <2>1 DEF BatchOK
<1>3. CASE SliceFlushes
  <2>1. /\ Len(msgs') = Len(msgs) /\ Len(msgs) >= Batch
        /\ pc' = "send" /\ attached' = TRUE /\ inEnd' = FALSE /\ sent' = 0
    BY <1>3 DEF SliceFlushes, BatchFull
  <2>2. QED
    BY <1>0, <2>1 DEF BatchOK
<1>4. CASE EndEmpty \/ GiveUp
  BY <1>4 DEF EndEmpty, GiveUp, BatchOK
<1>5. CASE EndFlushes
  <2>1. /\ msgs' = msgs /\ msgs # << >> /\ attached /\ attached' = attached
        /\ pc' = "send" /\ inEnd' = TRUE /\ sent' = 0
    BY <1>5 DEF EndFlushes, NothingToFlush
  <2>2. Len(msgs) > 0
    BY <1>0, <2>1
  <2>3. QED
    BY <2>1, <2>2 DEF BatchOK
<1>6. CASE SendMessage
  <2>1. /\ pc = "send" /\ UNCHANGED <<msgs, attached, inEnd>>
        /\ sent' = sent + 1
        /\ pc' = (IF sent + 1 = Len(msgs) THEN "wait" ELSE "send")
    BY <1>6 DEF SendMessage
  <2>2. QED
    BY <1>0, <2>1 DEF BatchOK
<1>7. CASE \E r : FlushReturns(r)
  <2>1. /\ pc' \in {"idle", "picture"}
        /\ msgs' = << >> \/ msgs' = << Id(pic, slices) >>
    BY <1>7 DEF FlushReturns
  <2>2. /\ Len(msgs') \in {0, 1}
        /\ pc' # "send" /\ pc' # "wait"
    BY <2>1
  <2>3. \A n \in {0, 1} : n <= Batch
    BY <1>0
  <2>4. QED
    BY <2>2, <2>3 DEF BatchOK
<1>8. CASE UNCHANGED host
  BY <1>8 DEF host, BatchOK
<1>9. QED
  <2>1. Caller =>
           \/ Begin \/ SliceQueued \/ SliceFlushes \/ EndEmpty \/ GiveUp
           \/ EndFlushes
    BY DEF Caller
  <2>2. Flush => SendMessage \/ (\E r : FlushReturns(r)) \/ UNCHANGED host
    BY DEF Flush, SendRefused, WaitAnswered, WaitSkips, WaitTimesOut
  <2>3. Mtx \/ UNCHANGED vars => UNCHANGED host
    BY DEF Mtx, MtxTakes, MtxSkipsPad, MtxCompletes, MtxFails, vars
  <2>4. QED
    BY <1>1, <1>2, <1>3, <1>4, <1>5, <1>6, <1>7, <1>8, <2>1, <2>2, <2>3
       DEF Next

(* The C variables and the ring's registers keep to their types, the batch *)
(* keeps to its 16 entries and the loop over it (psb_context_flush_cmdbuf) *)
(* to the batch, whoever calls, however many messages were left waiting,   *)
(* and however the MTX answers.                                            *)
THEOREM TypeCorrect == Spec => []TypeOK
<1>1. Init => BatchOK
  BY CmdbufAssumption DEF Init, BatchOK
<1>2. TypeInv /\ BatchOK => TypeOK
  BY DEF TypeInv, Typed, TypeOK
<1>3. QED
  BY TypeInit, TypeStep, BatchStep, <1>1, <1>2, PTL DEF Spec

-----------------------------------------------------------------------------
(* What a step that leaves them alone keeps.                               *)
LEMMA QuietKept ==
    ASSUME Quiet, UNCHANGED <<ring, running, replies, fence>>
    PROVE  Quiet'
BY DEF Quiet, ring

LEMMA OwnKept ==
    ASSUME Own, UNCHANGED <<ran, pic, slices>>
    PROVE  Own'
BY DEF Own

LEMMA WrittenKept ==
    ASSUME Written, UNCHANGED <<bits, commands, pic, slices>>
    PROVE  Written'
BY DEF Written

LEMMA QueuedKept ==
    ASSUME Queued, UNCHANGED <<msgs, attached, pic, slices>>
    PROVE  Queued'
BY DEF Queued

LEMMA WrappedKept == ASSUME Wrapped, UNCHANGED ring PROVE Wrapped'
BY DEF Wrapped, ring, Pos, Slots, Index

(* The replies that are left were all there before.                        *)
LEMMA TailIs ==
    ASSUME NEW S, NEW s \in Seq(S), s # << >>
    PROVE  /\ Head(s) = s[1] /\ 1 \in 1 .. Len(s)
           /\ \A i \in 1 .. Len(Tail(s)) :
                 i + 1 \in 1 .. Len(s) /\ Tail(s)[i] = s[i + 1]
<1>1. Len(s) \in Nat /\ Len(s) > 0
  OBVIOUS
<1>2. Len(Tail(s)) = Len(s) - 1
  BY <1>1
<1>3. QED
  BY <1>1, <1>2

(* With nothing unread, the two indices are the same.                      *)
LEMMA CaughtUp ==
    ASSUME NEW r \in 0 .. Slots, NEW w \in 0 .. Slots,
           rd = Pos(r), wr = Pos(w),
           rd \in Index, Wrapped, Ahead(r, w) = 0
    PROVE  rd = wr
<1>1. Slots \in Nat \ {0}
  BY SlotsAre
<1>2. CASE r <= w
  BY <1>1, <1>2 DEF Ahead
<1>3. CASE ~(r <= w)
  <2>1. r = Slots /\ w = 0
    BY <1>1, <1>3 DEF Ahead
  <2>2. wr = 0 /\ Pos(Slots) \in Index
    BY <2>1, FirstSlot
  <2>3. Pos(r) = Pos(0) /\ 0 \in 0 .. Slots
    BY <1>1, <2>2, FirstSlot DEF Wrapped
  <2>4. r = 0
    BY <2>3, SlotsDiffer
  <2>5. QED
    BY <1>1, <2>1, <2>4
<1>4. QED
  BY <1>2, <1>3

LEMMA InitHolds == Careful /\ Init => IInv
<1> SUFFICES ASSUME Careful, Init
             PROVE  IInv
  OBVIOUS
<1>1. Typed /\ Sending
  BY TypeInit DEF TypeInv
<1>2. careless = FALSE
  BY DEF Careful, Init
<1>3. pc = "idle" /\ result = "none" /\ msgs = << >> /\ ran = {}
      /\ rd = 0 /\ wr = 0 /\ running = Empty /\ replies = << >>
  BY DEF Init, RingInit
<1>4. Quiet
  <2>1. 0 \in 0 .. Slots /\ rd = Pos(0)
    BY <1>3, SlotsAre, FirstSlot
  <2>2. Len(replies) = 0
    BY <1>3
  <2>3. QED
    BY <1>3, <2>1, <2>2 DEF Quiet
<1>5. Wrapped /\ Own
  BY <1>3 DEF Wrapped, Own
<1>6. AtRest /\ Collecting /\ Flushing /\ Working
  BY <1>3, <1>4 DEF AtRest, Collecting, Flushing, Working, Busy
<1>7. QED
  BY <1>1, <1>2, <1>5, <1>6 DEF IInv

(* What a step must re-establish besides the type.                         *)
Kept ==
    /\ careless = FALSE
    /\ Wrapped /\ Own
    /\ AtRest /\ Collecting /\ Flushing /\ Working

LEMMA BeginKeeps == IInv /\ Begin => Kept'
<1> SUFFICES ASSUME IInv, Begin
             PROVE  Kept'
  OBVIOUS
<1>1. /\ pc = "idle" /\ result # "fail"
      /\ pic' = pic + 1 /\ slices' = 0 /\ result' = "none" /\ pc' = "picture"
      /\ UNCHANGED <<careless, inEnd, msgs, attached, sent, fence, memory, mtx,
                     ring>>
  BY DEF IInv, Begin
<1>2. Quiet /\ msgs = << >>
  BY <1>1 DEF IInv, AtRest
<1>3. Quiet'
  BY <1>1, <1>2, QuietKept DEF mtx
<1>4. \A q \in ran : q.id.pic \in Nat /\ q.id.pic <= pic
  BY DEF IInv, Own, Typed, Ids
<1>5. pic \in Nat /\ ran' = ran
  BY <1>1 DEF IInv, Typed, mtx
<1>6. \A q \in ran' : q.id.pic < pic' /\ q.intact
  BY <1>1, <1>4, <1>5 DEF IInv, Own
<1>7. Own'
  BY <1>1, <1>4, <1>5, <1>6 DEF Own
<1>8. Queued' /\ Written'
  <2>1. Len(msgs') = 0
    BY <1>1, <1>2
  <2>2. QED
    BY <1>1, <2>1 DEF Queued, Written
<1>9. Wrapped'
  BY <1>1, WrappedKept DEF IInv
<1>10. Collecting'
  BY <1>1, <1>3, <1>6, <1>8 DEF Collecting
<1>11. AtRest' /\ Flushing' /\ Working'
  BY <1>1 DEF AtRest, Flushing, Working, Busy
<1>12. careless' = FALSE
  BY <1>1 DEF IInv
<1>13. QED
  BY <1>7, <1>9, <1>10, <1>11, <1>12 DEF Kept

LEMMA SliceKeeps == IInv /\ SliceQueued => Kept'
<1> SUFFICES ASSUME IInv, SliceQueued
             PROVE  Kept'
  OBVIOUS
<1>1. /\ pc = "picture" /\ slices < BitstreamSlices /\ slices' = slices + 1
      /\ bits' = [bits EXCEPT ![slices + 1] = pic]
      /\ commands' = NextCmdbuf(Id(pic, slices + 1))
      /\ msgs' = Append(msgs, Id(pic, slices + 1))
      /\ attached' = TRUE
      /\ UNCHANGED <<careless, inEnd, pic, result, fence, pc, sent, mtx, ring>>
  BY DEF SliceQueued, WriteSlice
<1>2. /\ Quiet /\ Queued /\ Written /\ result = "none"
      /\ \A q \in ran : q.id.pic < pic
  BY <1>1 DEF IInv, Collecting
<1>3. /\ msgs \in Seq(Ids) /\ slices \in Nat /\ pic \in Nat
      /\ bits \in [Slot -> Nat] /\ slices + 1 \in Slot
      /\ \A q \in ran : q.id.pic \in Nat
  BY <1>1, CmdbufAssumption DEF IInv, Typed, Slot, Ids
<1>4. Quiet'
  BY <1>1, <1>2, QuietKept DEF mtx
<1>5. Queued'
  <2>1. Len(msgs') = slices + 1
    BY <1>1, <1>2, <1>3 DEF Queued
  <2>2. ASSUME NEW s \in 1 .. slices + 1
        PROVE  msgs'[s] = Id(pic, s)
    BY <1>1, <1>2, <1>3 DEF Queued
  <2>3. QED
    BY <1>1, <2>1, <2>2 DEF Queued, Id
<1>6. Written'
  <2>1. ASSUME NEW s \in 1 .. slices
        PROVE  bits'[s] = pic /\ Id(pic, s) \in commands'
    <3>1. s # slices + 1 /\ s \in Slot
      BY <1>3, CmdbufAssumption DEF Slot
    <3>2. bits'[s] = pic
      BY <1>1, <1>2, <1>3, <3>1 DEF Written
    <3>3. msgs # << >>
      BY <1>2, <1>3 DEF Queued
    <3>4. QED
      BY <1>1, <1>2, <3>2, <3>3 DEF Written, NextCmdbuf
  <2>2. bits'[slices + 1] = pic /\ Id(pic, slices + 1) \in commands'
    BY <1>1, <1>3 DEF NextCmdbuf
  <2>3. ASSUME NEW s \in 1 .. slices + 1
        PROVE  bits'[s] = pic /\ Id(pic, s) \in commands'
    <3>1. s \in 1 .. slices \/ s = slices + 1
      BY <1>3
    <3>2. QED
      BY <2>1, <2>2, <3>1
  <2>4. QED
    BY <1>1, <2>3 DEF Written, Id
<1>7. Own' /\ \A q \in ran' : q.id.pic < pic'
  <2>1. ran' = ran /\ pic' = pic
    BY <1>1 DEF mtx
  <2>2. QED
    BY <1>2, <1>3, <2>1 DEF IInv, Own
<1>8. Wrapped'
  BY <1>1, WrappedKept DEF IInv
<1>9. Collecting'
  BY <1>1, <1>2, <1>4, <1>5, <1>6, <1>7 DEF Collecting
<1>10. AtRest' /\ Flushing' /\ Working'
  BY <1>1 DEF AtRest, Flushing, Working, Busy
<1>11. careless' = FALSE
  BY <1>1 DEF IInv
<1>12. QED
  BY <1>7, <1>8, <1>9, <1>10, <1>11 DEF Kept

(* A picture that fits the batch never fills it.                           *)
LEMMA NoMidFlush == Fitting /\ IInv => ~SliceFlushes
<1> SUFFICES ASSUME Fitting, IInv, SliceFlushes
             PROVE  FALSE
  OBVIOUS
<1>1. pc = "picture" /\ slices < BitstreamSlices /\ Len(msgs) >= Batch
  BY DEF SliceFlushes, WriteSlice, BatchFull
<1>2. Len(msgs) = slices
  BY <1>1 DEF IInv, Collecting, Queued
<1>3. QED
  BY <1>1, <1>2, CmdbufAssumption DEF Fitting, IInv, Typed

LEMMA EndEmptyKeeps == IInv /\ EndEmpty => Kept'
<1> SUFFICES ASSUME IInv, EndEmpty
             PROVE  Kept'
  OBVIOUS
<1>1. /\ pc = "picture" /\ NothingToFlush /\ pc' = "idle" /\ result' = "ok"
      /\ UNCHANGED <<careless, inEnd, pic, slices, msgs, attached, sent, fence,
                     memory, mtx, ring>>
  BY DEF EndEmpty
<1>2. Quiet /\ Queued
  BY <1>1 DEF IInv, Collecting
<1>3. slices = 0 /\ msgs = << >>
  <2>1. slices \in Nat /\ msgs \in Seq(Ids)
    BY CmdbufAssumption DEF IInv, Typed
  <2>2. CASE msgs = << >>
    BY <1>2, <2>2 DEF Queued
  <2>3. CASE ~attached
    <3>1. ~(slices > 0)
      BY <1>2, <2>3 DEF Queued
    <3>2. QED
      BY <1>2, <2>1, <3>1 DEF Queued
  <2>4. QED
    BY <1>1, <2>2, <2>3 DEF NothingToFlush
<1>4. Quiet'
  BY <1>1, <1>2, QuietKept DEF mtx
<1>5. Executes' /\ msgs' = << >>
  BY <1>1, <1>3 DEF Executes
<1>6. AtRest'
  BY <1>4, <1>5 DEF AtRest
<1>7. Collecting' /\ Flushing' /\ Working'
  BY <1>1 DEF Collecting, Flushing, Working, Busy
<1>8. Own' /\ Wrapped' /\ careless' = FALSE
  BY <1>1, OwnKept, WrappedKept DEF IInv, mtx
<1>9. QED
  BY <1>6, <1>7, <1>8 DEF Kept

LEMMA EndFlushesKeeps == IInv /\ EndFlushes => Kept'
<1> SUFFICES ASSUME IInv, EndFlushes
             PROVE  Kept'
  OBVIOUS
<1>1. /\ pc = "picture" /\ inEnd' = TRUE /\ sent' = 0 /\ pc' = "send"
      /\ UNCHANGED <<careless, pic, slices, result, msgs, attached, fence,
                     memory, mtx, ring>>
  BY DEF EndFlushes
<1>2. Quiet /\ Queued /\ Written /\ result = "none"
  BY <1>1 DEF IInv, Collecting
<1>3. slices \in Nat /\ fence \in Nat
  BY CmdbufAssumption DEF IInv, Typed
<1>4. PICK r \in 0 .. Slots : rd = Pos(r) /\ wr = Pos(r)
  BY <1>2 DEF Quiet
<1>5. /\ running = Empty
      /\ \A i \in 1 .. Len(replies) : replies[i].fence < fence
  BY <1>2 DEF Quiet
<1>6. /\ rd' = Pos(r) /\ wr' = Pos(r) /\ running' = Empty
      /\ replies' = replies /\ fence' = fence
  BY <1>1, <1>4, <1>5 DEF ring, mtx
<1>7. Ahead(r, r) = 0 /\ 0 \in Nat
  BY SlotsAre DEF Ahead
<1>8. PICK f \in Nat : f = fence
  BY <1>3
<1>9. Flying'
  <2>1. Ended(0)' = 0
    BY <1>6 DEF Ended
  <2>2. InFlight(0, f, r, r)'
    BY <1>1, <1>3, <1>5, <1>6, <1>7, <1>8, <2>1 DEF InFlight
  <2>3. QED
    BY <1>7, <2>2 DEF Flying
<1>10. Queued' /\ Written'
  BY <1>1, <1>2, QueuedKept, WrittenKept DEF memory
<1>11. Flushing' /\ Working'
  BY <1>1, <1>2, <1>3, <1>9, <1>10 DEF Flushing, Working
<1>12. AtRest' /\ Collecting'
  BY <1>1 DEF AtRest, Collecting
<1>13. Own' /\ Wrapped' /\ careless' = FALSE
  BY <1>1, OwnKept, WrappedKept DEF IInv, mtx
<1>14. QED
  BY <1>11, <1>12, <1>13 DEF Kept

-----------------------------------------------------------------------------
(* The flush sends the next message of the picture.                        *)
LEMMA SendKeeps == Fitting /\ IInv /\ SendMessage => Kept'
<1> SUFFICES ASSUME Fitting, IInv, SendMessage
             PROVE  Kept'
  OBVIOUS
<1>1. /\ pc = "send" /\ sent' = sent + 1 /\ fence' = fence + 1
      /\ Put(Sent(msgs[sent + 1], fence, sent + 1 = Len(msgs)))
      /\ pc' = IF sent + 1 = Len(msgs) THEN "wait" ELSE "send"
      /\ UNCHANGED <<careless, inEnd, pic, slices, result, msgs, attached,
                     memory, mtx>>
  BY DEF SendMessage
<1>2. Queued /\ inEnd = TRUE /\ result = "none" /\ Written /\ Flying
  BY <1>1 DEF IInv, Flushing, Working, Busy
<1>3. /\ sent \in Nat /\ fence \in Nat /\ slices \in 0 .. BitstreamSlices
      /\ sent < slices /\ Len(msgs) = slices /\ BitstreamSlices \in Nat
  BY <1>1, <1>2, CmdbufAssumption DEF IInv, Typed, Sending, Queued
<1>4. PICK t, f \in Nat, r, w \in 0 .. Slots : InFlight(t, f, r, w)
  BY <1>2 DEF Flying
<1>5. /\ rd = Pos(r) /\ wr = Pos(w) /\ t <= sent /\ Ahead(r, w) = sent - t
      /\ fence = f + sent
  BY <1>1, <1>4 DEF InFlight
<1>6. Ahead(r, w) + 1 < Slots
  BY <1>3, <1>4, <1>5, SlotsAre DEF Fitting
<1>7. PICK m : m = Message(sent + 1, f) /\ Put(m)
  <2>1. msgs[sent + 1] = Id(pic, sent + 1)
    BY <1>2, <1>3 DEF Queued
  <2>2. fence = f + (sent + 1) - 1
    BY <1>3, <1>4, <1>5
  <2>3. QED
    BY <1>1, <1>3, <2>1, <2>2 DEF Message
<1>8. buf \in [Index -> Messages \cup {Empty}]
  BY DEF IInv, Typed
<1>9. /\ rd' = rd /\ wr' \in Index
      /\ wr' = 0 => Pos(Slots) \notin Index
      /\ buf'[Pos(Place(r, sent - t))] = m
      /\ \A j \in 0 .. sent - t - 1 :
            buf'[Pos(Place(r, j))] = buf[Pos(Place(r, j))]
  <2>1. /\ rd' = rd /\ wr' \in Index
        /\ wr' = 0 => Pos(Slots) \notin Index
        /\ buf'[Pos(Place(r, Ahead(r, w)))] = m
        /\ \A j \in 0 .. Ahead(r, w) - 1 :
              buf'[Pos(Place(r, j))] = buf[Pos(Place(r, j))]
    BY <1>4, <1>5, <1>6, <1>7, <1>8, PutIs
  <2>2. QED
    BY <1>5, <2>1
<1>10. PICK v \in 0 .. Slots : wr' = Pos(v) /\ Ahead(r, v) = sent - t + 1
  <2>1. \E v \in 0 .. Slots : wr' = Pos(v) /\ Ahead(r, v) = Ahead(r, w) + 1
    BY <1>4, <1>5, <1>6, <1>7, <1>8, PutIs, ZenonT(30)
  <2>2. QED
    BY <1>5, <2>1
<1>11. \A k \in Nat : /\ Message(k, f)' = Message(k, f)
                       /\ Record(k, f)' = Record(k, f)
  BY <1>1 DEF Message, Record, Sent, Id
<1>12. \A j \in 0 .. sent' - t - 1 :
          buf'[Pos(Place(r, j))] = Message(t + 1 + j, f)
  <2> SUFFICES ASSUME NEW j \in 0 .. sent' - t - 1
               PROVE  buf'[Pos(Place(r, j))] = Message(t + 1 + j, f)
    OBVIOUS
  <2>1. CASE j = sent - t
    <3>1. t + 1 + j = sent + 1
      BY <1>3, <1>4, <2>1
    <3>2. QED
      BY <1>7, <1>9, <2>1, <3>1
  <2>2. CASE j # sent - t
    <3>1. j \in 0 .. sent - t - 1
      BY <1>1, <1>3, <1>4, <1>5, <2>2
    <3>2. QED
      BY <1>4, <1>9, <3>1 DEF InFlight
  <2>3. QED
    BY <2>1, <2>2
<1>13. /\ running' = running /\ replies' = replies /\ ran' = ran
       /\ Ended(t)' = Ended(t)
  BY <1>1 DEF mtx, Ended
<1>14. InFlight(t, f, r, v)'
  <2>1. t <= sent' /\ Ahead(r, v) = sent' - t /\ fence' = f + sent'
    BY <1>1, <1>3, <1>4, <1>5, <1>10
  <2>2. /\ running # Empty => t >= 1 /\ running = Message(t, f)
        /\ \A k \in 1 .. Ended(t) : Record(k, f) \in ran
        /\ \A i \in 1 .. Len(replies) : replies[i].fence < f + Ended(t)
    BY <1>4 DEF InFlight
  <2>3. /\ running' # Empty => t >= 1 /\ running' = Message(t, f)'
        /\ \A k \in 1 .. Ended(t)' : Record(k, f)' \in ran'
        /\ \A i \in 1 .. Len(replies') : replies'[i].fence < f + Ended(t)'
    <3>1. Message(t, f)' = Message(t, f)
      BY <1>4, <1>11
    <3>2. \A k \in 1 .. Ended(t) : Record(k, f)' = Record(k, f)
      BY <1>1 DEF Record, Id
    <3>3. QED
      BY <1>13, <2>2, <3>1, <3>2
  <2>4. \A j \in 0 .. sent' - t - 1 :
           buf'[Pos(Place(r, j))] = Message(t + 1 + j, f)'
    <3>1. \A j \in 0 .. sent' - t - 1 : t + 1 + j \in Nat
      BY <1>4
    <3>2. QED
      BY <1>11, <1>12, <3>1
  <2>5. rd' = Pos(r) /\ wr' = Pos(v)
    BY <1>5, <1>9, <1>10
  <2>6. QED
    BY <2>1, <2>3, <2>4, <2>5 DEF InFlight
<1>15. Flying'
  BY <1>4, <1>10, <1>14 DEF Flying
<1>16. Queued' /\ Written'
  BY <1>1, <1>2, QueuedKept, WrittenKept DEF memory
<1>17. sent' <= slices' /\ (pc' = "wait" => sent' = slices')
       /\ pc' \in {"send", "wait"}
  BY <1>1, <1>3
<1>18. Flushing' /\ Working' /\ AtRest' /\ Collecting'
  BY <1>1, <1>2, <1>15, <1>16, <1>17
     DEF Flushing, Working, AtRest, Collecting
<1>19. Wrapped'
  BY <1>9 DEF Wrapped, Pos, Slots, Index
<1>20. Own' /\ careless' = FALSE
  BY <1>1, OwnKept DEF IInv, mtx
<1>21. QED
  BY <1>18, <1>19, <1>20 DEF Kept

(* What of a picture in flight stays when its flush ends, however many of  *)
(* the replies are left.                                                   *)
LEMMA FlyingKept ==
    ASSUME Flying, UNCHANGED <<ring, running, ran, pic, slices, sent, fence>>,
           \/ pc' \notin {"send", "wait"}
           \/ pc \in {"send", "wait"},
           \A i \in 1 .. Len(replies') :
              \E k \in 1 .. Len(replies) : replies'[i] = replies[k]
    PROVE  Flying'
<1>1. PICK t, f \in Nat, r, w \in 0 .. Slots : InFlight(t, f, r, w)
  BY DEF Flying
<1>2. Ended(t)' = Ended(t)
  BY DEF Ended
<1>3. \A k : Message(k, f)' = Message(k, f) /\ Record(k, f)' = Record(k, f)
  BY DEF Message, Record, Sent, Id
<1>4. InFlight(t, f, r, w)'
  BY <1>1, <1>2, <1>3 DEF InFlight, ring
<1>5. QED
  BY <1>1, <1>4 DEF Flying

(* The same with the fence handed out to a message the ring refused.       *)
LEMMA FlyingLeft ==
    ASSUME Flying,
           UNCHANGED <<ring, running, replies, ran, pic, slices, sent>>,
           pc' = "idle"
    PROVE  Flying'
<1>1. PICK t, f \in Nat, r, w \in 0 .. Slots : InFlight(t, f, r, w)
  BY DEF Flying
<1>2. Ended(t)' = Ended(t)
  BY DEF Ended
<1>3. \A k : Message(k, f)' = Message(k, f) /\ Record(k, f)' = Record(k, f)
  BY DEF Message, Record, Sent, Id
<1>4. InFlight(t, f, r, w)'
  BY <1>1, <1>2, <1>3 DEF InFlight, ring
<1>5. QED
  BY <1>1, <1>4 DEF Flying

(* A flush that fails ends the caller's use of the decoder; the MTX may    *)
(* still be at work.                                                       *)
LEMMA FailKeeps ==
    ASSUME IInv, pc \in {"send", "wait"}, FlushReturns("fail"), Flying',
           UNCHANGED <<ring, ran>>
    PROVE  Kept'
<1>1. inEnd = TRUE /\ Written /\ sent <= slices
  BY DEF IInv, Flushing, Working, Busy
<1>2. /\ pc' = "idle" /\ result' = "fail"
      /\ UNCHANGED <<careless, pic, slices, sent, memory>>
  BY <1>1 DEF FlushReturns
<1>3. Written' /\ sent' <= slices'
  BY <1>1, <1>2, WrittenKept DEF memory
<1>4. AtRest' /\ Collecting' /\ Flushing' /\ Working'
  BY <1>2, <1>3 DEF AtRest, Collecting, Flushing, Working
<1>5. Own' /\ Wrapped' /\ careless' = FALSE
  BY <1>2, OwnKept, WrappedKept DEF IInv
<1>6. QED
  BY <1>4, <1>5 DEF Kept

LEMMA RefusedKeeps == IInv /\ SendRefused => Kept'
<1> SUFFICES ASSUME IInv, SendRefused
             PROVE  Kept'
  OBVIOUS
<1>1. pc = "send" /\ FlushReturns("fail") /\ UNCHANGED <<mtx, ring>>
  BY DEF SendRefused
<1>2. inEnd = TRUE /\ Flying
  BY <1>1 DEF IInv, Flushing, Working, Busy
<1>3. pc' = "idle" /\ UNCHANGED <<pic, slices, sent>>
  BY <1>1, <1>2 DEF FlushReturns
<1>4. Flying'
  BY <1>1, <1>2, <1>3, FlyingLeft DEF mtx
<1>5. QED
  BY <1>1, <1>4, FailKeeps DEF mtx

LEMMA TimeOutKeeps == IInv /\ WaitTimesOut => Kept'
<1> SUFFICES ASSUME IInv, WaitTimesOut
             PROVE  Kept'
  OBVIOUS
<1>1. pc = "wait" /\ FlushReturns("fail") /\ UNCHANGED <<mtx, ring>>
  BY DEF WaitTimesOut
<1>2. inEnd = TRUE /\ Flying
  BY <1>1 DEF IInv, Flushing, Working, Busy
<1>3. pc' = "idle" /\ UNCHANGED <<pic, slices, sent>>
  BY <1>1, <1>2 DEF FlushReturns
<1>4. Flying'
  BY <1>1, <1>2, <1>3, FlyingLeft DEF mtx
<1>5. QED
  BY <1>1, <1>4, FailKeeps DEF mtx

(* A reply read and dropped.                                               *)
LEMMA SkipsKeeps == IInv /\ WaitSkips => Kept'
<1> SUFFICES ASSUME IInv, WaitSkips
             PROVE  Kept'
  OBVIOUS
<1>1. /\ pc = "wait" /\ replies # << >> /\ replies' = Tail(replies)
      /\ UNCHANGED <<host, memory, running, ran, ring>>
  BY DEF WaitSkips
<1>2. Queued /\ Written /\ Flying
  BY <1>1 DEF IInv, Flushing, Working, Busy
<1>3. \A i \in 1 .. Len(replies') :
         \E k \in 1 .. Len(replies) : replies'[i] = replies[k]
  <2>1. replies \in Seq(Replies)
    BY DEF IInv, Typed
  <2>2. QED
    BY <1>1, <2>1, TailIs
<1>4. Flying'
  BY <1>1, <1>2, <1>3, FlyingKept DEF host
<1>5. Queued' /\ Written'
  BY <1>1, <1>2, QueuedKept, WrittenKept DEF host, memory
<1>6. AtRest' /\ Collecting' /\ Flushing' /\ Working'
  BY <1>1, <1>4, <1>5
     DEF host, IInv, AtRest, Collecting, Flushing, Working, Busy
<1>7. Own' /\ Wrapped' /\ careless' = FALSE
  BY <1>1, OwnKept, WrappedKept DEF IInv, host
<1>8. QED
  BY <1>6, <1>7 DEF Kept

(* The reply with the last fence: everything has been executed.            *)
LEMMA AllAnswered ==
    ASSUME IInv, pc = "wait", replies # << >>, Answers(Head(replies))
    PROVE  /\ Executes /\ rd = wr /\ running = Empty
           /\ \A i \in 1 .. Len(replies) : replies[i].fence < fence
<1>1. Flying /\ sent = slices
  BY DEF IInv, Flushing, Working, Busy
<1>2. PICK t, f \in Nat, r, w \in 0 .. Slots : InFlight(t, f, r, w)
  BY <1>1 DEF Flying
<1>3. /\ rd = Pos(r) /\ wr = Pos(w) /\ t <= sent /\ Ahead(r, w) = sent - t
      /\ \A k \in 1 .. Ended(t) : Record(k, f) \in ran
      /\ \A i \in 1 .. Len(replies) : replies[i].fence < f + Ended(t)
      /\ fence = f + sent
  BY <1>2 DEF InFlight
<1>4. /\ sent \in Nat /\ fence \in Nat /\ rd \in Index
      /\ replies \in Seq(Replies) /\ slices \in Nat
  BY CmdbufAssumption DEF IInv, Typed
<1>5. replies[1].fence = fence - 1 /\ 1 \in 1 .. Len(replies)
  BY <1>4, TailIs DEF Answers
<1>6. fence - 1 < f + Ended(t)
  BY <1>3, <1>5
<1>7. running = Empty
  <2>1. ASSUME running # Empty
        PROVE  FALSE
    <3>1. Ended(t) = t - 1
      BY <2>1 DEF Ended
    <3>2. QED
      BY <1>2, <1>3, <1>4, <1>6, <3>1
  <2>2. QED
    BY <2>1
<1>8. Ended(t) = t
  BY <1>7 DEF Ended
<1>9. t = slices /\ Ahead(r, w) = 0
  BY <1>1, <1>2, <1>3, <1>4, <1>6, <1>8
<1>10. rd = wr
  BY <1>2, <1>3, <1>4, <1>9, CaughtUp DEF IInv
<1>11. Executes
  <2> SUFFICES ASSUME NEW s \in 1 .. slices
               PROVE  \E q \in ran : q.intact /\ q.id = Id(pic, s)
    BY DEF Executes
  <2>1. Record(s, f) \in ran
    BY <1>3, <1>8, <1>9
  <2>2. Record(s, f).intact /\ Record(s, f).id = Id(pic, s)
    BY DEF Record
  <2>3. QED
    BY <2>1, <2>2
<1>12. QED
  BY <1>1, <1>3, <1>7, <1>8, <1>9, <1>10, <1>11

LEMMA AnsweredKeeps == IInv /\ WaitAnswered => Kept'
<1> SUFFICES ASSUME IInv, WaitAnswered
             PROVE  Kept'
  OBVIOUS
<1>1. /\ pc = "wait" /\ replies # << >> /\ Ends(Head(replies))
      /\ FlushReturns(Verdict(Head(replies)))
      /\ replies' = Tail(replies)
      /\ UNCHANGED <<fence, running, ran, ring>>
  BY DEF WaitAnswered
<1>2. inEnd = TRUE /\ Flying
  BY <1>1 DEF IInv, Flushing, Working, Busy
<1>3. replies \in Seq(Replies)
  BY DEF IInv, Typed
<1>4. \A i \in 1 .. Len(replies') :
         \E k \in 1 .. Len(replies) : replies'[i] = replies[k]
  BY <1>1, <1>3, TailIs
<1>5. CASE Verdict(Head(replies)) = "fail"
  <2>1. FlushReturns("fail")
    BY <1>1, <1>5
  <2>2. pc' = "idle" /\ UNCHANGED <<pic, slices, sent>>
    BY <1>2, <2>1 DEF FlushReturns
  <2>3. Flying'
    BY <1>1, <1>2, <1>4, <2>2, FlyingKept
  <2>4. QED
    BY <1>1, <2>1, <2>3, FailKeeps
<1>6. CASE Verdict(Head(replies)) # "fail"
  <2>1. Head(replies).kind = "completed" /\ Verdict(Head(replies)) = "ok"
    BY <1>6 DEF Verdict
  <2>2. Answers(Head(replies))
    BY <1>1, <2>1 DEF Ends
  <2>3. /\ Executes /\ rd = wr /\ running = Empty
        /\ \A i \in 1 .. Len(replies) : replies[i].fence < fence
    BY <1>1, <2>2, AllAnswered
  <2>4. /\ pc' = "idle" /\ result' = "ok" /\ msgs' = << >>
        /\ UNCHANGED <<careless, pic, slices>>
    BY <1>1, <1>2, <2>1 DEF FlushReturns
  <2>5. Quiet'
    <3>1. \E r \in 0 .. Slots : rd = Pos(r)
      BY <1>2 DEF Flying, InFlight
    <3>2. \A i \in 1 .. Len(replies') : replies'[i].fence < fence'
      BY <1>1, <1>4, <2>3
    <3>3. QED
      BY <1>1, <2>3, <3>1, <3>2 DEF Quiet, ring
  <2>6. Executes'
    BY <1>1, <2>3, <2>4 DEF Executes, Id
  <2>7. AtRest' /\ Collecting' /\ Flushing' /\ Working'
    BY <2>4, <2>5, <2>6 DEF AtRest, Collecting, Flushing, Working, Busy
  <2>8. Own' /\ Wrapped' /\ careless' = FALSE
    BY <1>1, <2>4, OwnKept, WrappedKept DEF IInv
  <2>9. QED
    BY <2>7, <2>8 DEF Kept
<1>7. QED
  BY <1>5, <1>6

-----------------------------------------------------------------------------
(* While the MTX has anything to do, a picture is in flight.               *)
LEMMA AtWork ==
    ASSUME IInv, running # Empty \/ rd # wr
    PROVE  Busy /\ Written /\ Flying /\ sent <= slices
<1>1. ~Quiet
  BY DEF Quiet
<1>2. pc \in {"idle", "picture", "send", "wait"}
  BY DEF IInv, Typed
<1>3. Busy
  BY <1>1, <1>2 DEF IInv, AtRest, Collecting, Busy
<1>4. QED
  BY <1>3 DEF IInv, Working

(* The MTX's steps leave the host as it is.                                *)
LEMMA MtxKeeps ==
    ASSUME IInv, Busy, UNCHANGED <<host, memory>>,
           Wrapped', Own', Flying'
    PROVE  Kept'
<1>1. Written /\ sent <= slices
  BY DEF IInv, Working
<1>2. UNCHANGED <<careless, pc, inEnd, pic, slices, result, msgs, attached,
                  sent, fence, commands, bits>>
  BY DEF host, memory
<1>3. Written' /\ (Queued => Queued')
  BY <1>1, <1>2, WrittenKept, QueuedKept
<1>4. AtRest' /\ Collecting'
  BY <1>2 DEF AtRest, Collecting, Busy
<1>5. Flushing'
  BY <1>2, <1>3 DEF IInv, Flushing
<1>6. Working'
  BY <1>1, <1>2, <1>3 DEF Working
<1>7. QED
  BY <1>2, <1>4, <1>5, <1>6 DEF IInv, Kept

LEMMA TakesKeeps == Fitting /\ IInv /\ MtxTakes => Kept'
<1> SUFFICES ASSUME Fitting, IInv, MtxTakes
             PROVE  Kept'
  OBVIOUS
<1>1. /\ running = Empty /\ Take /\ running' = NextUnread /\ rd # wr
      /\ UNCHANGED <<host, memory, replies, ran>>
  BY DEF MtxTakes, Take, Unread
<1>2. Busy /\ Flying /\ sent <= slices
  BY <1>1, AtWork
<1>3. PICK t, f \in Nat, r, w \in 0 .. Slots : InFlight(t, f, r, w)
  BY <1>2 DEF Flying
<1>4. /\ rd = Pos(r) /\ wr = Pos(w) /\ t <= sent /\ Ahead(r, w) = sent - t
      /\ \A j \in 0 .. sent - t - 1 :
            buf[Pos(Place(r, j))] = Message(t + 1 + j, f)
  BY <1>3 DEF InFlight
<1>5. /\ sent \in Nat /\ slices \in 0 .. BitstreamSlices /\ wr \in Index
      /\ pic \in Nat /\ BitstreamSlices \in Nat /\ Slots \in Nat
  BY CmdbufAssumption, SlotsAre DEF IInv, Typed
<1>6. Ahead(r, w) < Slots
  BY <1>2, <1>3, <1>4, <1>5 DEF Fitting
<1>7. /\ buf' = buf /\ wr' = wr /\ rd' \in Index
      /\ Ahead(r, w) > 0
      /\ NextUnread = buf[Pos(Place(r, 0))]
  BY <1>1, <1>3, <1>4, <1>5, <1>6, TakeIs
<1>8. PICK v \in 0 .. Slots :
        /\ rd' = Pos(v) /\ Ahead(v, w) = Ahead(r, w) - 1
        /\ \A j \in 0 .. Ahead(r, w) - 2 : Place(v, j) = Place(r, j + 1)
  BY <1>1, <1>3, <1>4, <1>5, <1>6, TakeIs
<1>9. running' = Message(t + 1, f)
  <2>1. 0 \in 0 .. sent - t - 1 /\ t + 1 + 0 = t + 1
    BY <1>3, <1>4, <1>5, <1>7
  <2>2. buf[Pos(Place(r, 0))] = Message(t + 1 + 0, f)
    BY <1>4, <2>1
  <2>3. QED
    BY <1>1, <1>7, <2>1, <2>2
<1>10. running' # Empty
  <2>1. t + 1 \in Nat /\ f + (t + 1) - 1 \in Nat
    BY <1>3
  <2>2. Message(t + 1, f) \in Messages
    BY <1>5, <2>1 DEF Message, Sent, Messages, Id, Ids
  <2>3. QED
    BY <1>9, <2>2, EmptyAssumption
<1>11. Ended(t + 1)' = t /\ Ended(t) = t
  BY <1>1, <1>3, <1>10 DEF Ended
<1>12. UNCHANGED <<pc, pic, slices, sent, fence>>
  BY <1>1 DEF host
<1>13. \A k : Message(k, f)' = Message(k, f) /\ Record(k, f)' = Record(k, f)
  BY <1>12 DEF Message, Record, Sent, Id
<1>14. \A j \in 0 .. sent - (t + 1) - 1 :
          buf'[Pos(Place(v, j))] = Message(t + 1 + 1 + j, f)
  <2> SUFFICES ASSUME NEW j \in 0 .. sent - (t + 1) - 1
               PROVE  buf'[Pos(Place(v, j))] = Message(t + 1 + 1 + j, f)
    OBVIOUS
  <2>1. /\ j + 1 \in 0 .. sent - t - 1 /\ j \in 0 .. Ahead(r, w) - 2
        /\ t + 1 + (j + 1) = t + 1 + 1 + j
    BY <1>3, <1>4, <1>5
  <2>2. buf[Pos(Place(r, j + 1))] = Message(t + 1 + (j + 1), f)
    BY <1>4, <2>1
  <2>3. QED
    BY <1>7, <1>8, <2>1, <2>2
<1>15. PICK u \in Nat : u = t + 1
  BY <1>3
<1>16. InFlight(u, f, v, w)'
  <2>1. rd' = Pos(v) /\ wr' = Pos(w) /\ u <= sent' /\ Ahead(v, w) = sent' - u
    BY <1>3, <1>4, <1>5, <1>7, <1>8, <1>12, <1>15
  <2>2. \A j \in 0 .. sent' - u - 1 :
           buf'[Pos(Place(v, j))] = Message(u + 1 + j, f)'
    BY <1>12, <1>13, <1>14, <1>15
  <2>3. u >= 1 /\ running' = Message(u, f)'
    BY <1>3, <1>9, <1>13, <1>15
  <2>4. Ended(u)' = t
    BY <1>3, <1>10, <1>15 DEF Ended
  <2>5. /\ \A k \in 1 .. t : Record(k, f) \in ran
        /\ \A i \in 1 .. Len(replies) : replies[i].fence < f + t
        /\ pc \in {"send", "wait"} => fence = f + sent
    BY <1>3, <1>11 DEF InFlight
  <2>6. QED
    BY <1>1, <1>12, <1>13, <2>1, <2>2, <2>3, <2>4, <2>5 DEF InFlight
<1>17. Flying'
  BY <1>3, <1>8, <1>15, <1>16 DEF Flying
<1>18. Own'
  BY <1>1, <1>12, OwnKept DEF IInv
<1>19. Wrapped'
  <2>1. wr = 0 /\ Pos(Slots) \in Index => FALSE
    BY <1>1 DEF IInv, Wrapped
  <2>2. QED
    BY <1>7, <2>1 DEF Wrapped, Pos, Slots, Index
<1>20. QED
  BY <1>1, <1>2, <1>17, <1>18, <1>19, MtxKeeps

LEMMA SkipsPadKeeps == Fitting /\ IInv /\ MtxSkipsPad => Kept'
<1> SUFFICES ASSUME Fitting, IInv, MtxSkipsPad
             PROVE  Kept'
  OBVIOUS
<1>1. /\ running = Empty /\ SkipPad /\ rd # wr
      /\ UNCHANGED <<host, memory, mtx>>
  BY DEF MtxSkipsPad, SkipPad
<1>2. Busy /\ Flying /\ sent <= slices
  BY <1>1, AtWork
<1>3. PICK t, f \in Nat, r, w \in 0 .. Slots : InFlight(t, f, r, w)
  BY <1>2 DEF Flying
<1>4. /\ rd = Pos(r) /\ wr = Pos(w) /\ t <= sent /\ Ahead(r, w) = sent - t
      /\ \A j \in 0 .. sent - t - 1 :
            buf[Pos(Place(r, j))] = Message(t + 1 + j, f)
  BY <1>3 DEF InFlight
<1>5. /\ sent \in Nat /\ slices \in 0 .. BitstreamSlices
      /\ BitstreamSlices \in Nat /\ Slots \in Nat \ {0}
  BY CmdbufAssumption, SlotsAre DEF IInv, Typed
<1>6. /\ buf' = buf /\ wr' = wr /\ rd' = Pos(0)
      /\ Ahead(0, w) = Ahead(r, w)
      /\ \A j \in 0 .. Slots - 1 : Place(0, j) = Place(r, j)
  BY <1>1, <1>3, <1>4, SkipIs
<1>7. UNCHANGED <<pc, pic, slices, sent, fence, running, replies, ran>>
  BY <1>1 DEF host, mtx
<1>8. /\ \A k : Message(k, f)' = Message(k, f) /\ Record(k, f)' = Record(k, f)
      /\ Ended(t)' = Ended(t)
  BY <1>7 DEF Message, Record, Sent, Id, Ended
<1>9. \A j \in 0 .. sent - t - 1 :
         buf'[Pos(Place(0, j))] = Message(t + 1 + j, f)
  <2>1. \A j \in 0 .. sent - t - 1 : j \in 0 .. Slots - 1
    BY <1>2, <1>3, <1>4, <1>5 DEF Fitting
  <2>2. QED
    BY <1>4, <1>6, <2>1
<1>10. InFlight(t, f, 0, w)'
  BY <1>3, <1>4, <1>6, <1>7, <1>8, <1>9 DEF InFlight
<1>11. Flying'
  <2>1. 0 \in 0 .. Slots
    BY <1>5
  <2>2. QED
    BY <1>3, <1>10, <2>1 DEF Flying
<1>12. Own'
  BY <1>7, OwnKept DEF IInv
<1>13. Wrapped'
  BY <1>6, FirstSlot DEF Wrapped
<1>14. QED
  BY <1>1, <1>2, <1>11, <1>12, <1>13, MtxKeeps

(* What the MTX executes is the picture's next slice, on its own data.     *)
LEMMA ExecutedKeeps ==
    ASSUME IInv, running # Empty, Executed, running' = Empty,
           UNCHANGED <<host, memory, ring>>,
           \/ replies' = replies
           \/ \E kind \in {"completed", "failed", "panic"} :
                 replies' = Append(replies, Reply(kind, running.fence))
    PROVE  /\ Kept'
           /\ \E s \in 1 .. slices, g \in Nat :
                 ran' = ran \cup {[id |-> Id(pic, s), fence |-> g,
                                   intact |-> TRUE]}
<1>1. Busy /\ Written /\ Flying /\ sent <= slices
  BY AtWork
<1>2. PICK t, f \in Nat, r, w \in 0 .. Slots : InFlight(t, f, r, w)
  BY <1>1 DEF Flying
<1>3. /\ t >= 1 /\ t <= sent /\ running = Message(t, f)
      /\ Ended(t) = t - 1
      /\ \A k \in 1 .. t - 1 : Record(k, f) \in ran
      /\ \A i \in 1 .. Len(replies) : replies[i].fence < f + (t - 1)
  BY <1>2 DEF InFlight, Ended
<1>4. /\ sent \in Nat /\ slices \in Nat /\ pic \in Nat
      /\ replies \in Seq(Replies)
  BY CmdbufAssumption DEF IInv, Typed
<1>5. t \in 1 .. slices /\ f + t - 1 \in Nat
  BY <1>1, <1>2, <1>3, <1>4
<1>6. running.id = Id(pic, t) /\ running.fence = f + t - 1
  BY <1>3 DEF Message, Sent
<1>7. Intact(running.id)
  <2>1. bits[t] = pic /\ Id(pic, t) \in commands
    BY <1>1, <1>5 DEF Written
  <2>2. Id(pic, t).slice = t /\ Id(pic, t).pic = pic
    BY DEF Id
  <2>3. QED
    BY <1>6, <2>1, <2>2 DEF Intact
<1>8. ran' = ran \cup {Record(t, f)}
  <2>1. Intact(running.id) = TRUE
    BY <1>7 DEF Intact
  <2>2. QED
    BY <1>6, <2>1 DEF Executed, Record
<1>9. UNCHANGED <<pc, pic, slices, sent, fence, buf, rd, wr>>
  BY DEF host, ring
<1>10. /\ \A k : Message(k, f)' = Message(k, f) /\ Record(k, f)' = Record(k, f)
       /\ Ended(t)' = t
  BY <1>9 DEF Message, Record, Sent, Id, Ended
<1>11. \A k \in 1 .. t : Record(k, f) \in ran'
  <2> SUFFICES ASSUME NEW k \in 1 .. t
               PROVE  Record(k, f) \in ran'
    OBVIOUS
  <2>1. k = t \/ k \in 1 .. t - 1
    BY <1>2
  <2>2. QED
    BY <1>3, <1>8, <2>1
<1>12. \A i \in 1 .. Len(replies') : replies'[i].fence < f + t
  <2>1. \A i \in 1 .. Len(replies) : replies[i].fence < f + t
    <3>1. ASSUME NEW i \in 1 .. Len(replies)
          PROVE  replies[i].fence \in Nat
      <4>1. replies[i] \in Replies
        BY <1>4
      <4>2. QED
        BY <4>1 DEF Replies
    <3>2. QED
      BY <1>2, <1>3, <3>1
  <2>2. CASE replies' = replies
    BY <2>1, <2>2
  <2>3. ASSUME NEW kind \in {"completed", "failed", "panic"},
               replies' = Append(replies, Reply(kind, running.fence))
        PROVE  \A i \in 1 .. Len(replies') : replies'[i].fence < f + t
    <3>1. Reply(kind, running.fence) \in Replies
      BY <1>5, <1>6 DEF Reply, Replies
    <3>2. Reply(kind, running.fence).fence < f + t
      BY <1>2, <1>6 DEF Reply
    <3>3. ASSUME NEW i \in 1 .. Len(replies')
          PROVE  \/ i \in 1 .. Len(replies) /\ replies'[i] = replies[i]
                 \/ replies'[i] = Reply(kind, running.fence)
      BY <1>4, <2>3, <3>1
    <3>4. QED
      BY <2>1, <3>2, <3>3
  <2>4. QED
    BY <2>2, <2>3
<1>13. InFlight(t, f, r, w)'
  BY <1>2, <1>9, <1>10, <1>11, <1>12 DEF InFlight
<1>14. Flying'
  BY <1>2, <1>13 DEF Flying
<1>15. Own'
  <2>1. /\ Record(t, f).intact /\ Record(t, f).id.pic = pic
        /\ Record(t, f).id.slice = t
    BY DEF Record, Id
  <2>2. QED
    BY <1>4, <1>5, <1>8, <1>9, <2>1 DEF IInv, Own
<1>16. Wrapped'
  BY WrappedKept DEF IInv
<1>17. Kept'
  BY <1>1, <1>14, <1>15, <1>16, MtxKeeps
<1>18. QED
  BY <1>5, <1>8, <1>17 DEF Record

LEMMA CompletesKeeps == IInv /\ MtxCompletes => Kept'
<1> SUFFICES ASSUME IInv, MtxCompletes
             PROVE  Kept'
  OBVIOUS
<1>1. /\ running # Empty /\ Executed /\ running' = Empty
      /\ UNCHANGED <<host, memory, ring>>
      /\ \/ replies' = replies
         \/ replies' = Append(replies, Reply("completed", running.fence))
  BY DEF MtxCompletes
<1>2. QED
  BY <1>1, ExecutedKeeps

LEMMA FailsKeeps == IInv /\ MtxFails => Kept'
<1> SUFFICES ASSUME IInv, MtxFails
             PROVE  Kept'
  OBVIOUS
<1>1. /\ running # Empty /\ Executed /\ running' = Empty
      /\ UNCHANGED <<host, memory, ring>>
      /\ \E kind \in {"completed", "failed", "panic"} :
            replies' = Append(replies, Reply(kind, running.fence))
  BY DEF MtxFails
<1>2. QED
  BY <1>1, ExecutedKeeps

LEMMA StutterKeeps == IInv /\ UNCHANGED vars => Kept'
<1> SUFFICES ASSUME IInv, UNCHANGED vars
             PROVE  Kept'
  OBVIOUS
<1>1. UNCHANGED <<careless, pc, inEnd, pic, slices, result, msgs, attached,
                  sent, fence, commands, bits, running, replies, ran, ring>>
  BY DEF vars, host, memory, mtx
<1>2. Own' /\ Wrapped' /\ (Quiet => Quiet') /\ (Queued => Queued')
      /\ (Written => Written')
  BY <1>1, OwnKept, WrappedKept, QuietKept, QueuedKept, WrittenKept DEF IInv
<1>3. Executes => Executes'
  BY <1>1 DEF Executes, Id
<1>4. Flying /\ Busy => Flying'
  <2>1. pc \in {"idle", "picture", "send", "wait"}
    BY DEF IInv, Typed
  <2>2. \A i \in 1 .. Len(replies') :
           \E k \in 1 .. Len(replies) : replies'[i] = replies[k]
    BY <1>1
  <2>3. pc' \notin {"send", "wait"} \/ pc \in {"send", "wait"}
    BY <1>1
  <2>4. QED
    BY <1>1, <2>2, <2>3, FlyingKept
<1>5. AtRest' /\ Collecting' /\ Flushing' /\ Working'
  BY <1>1, <1>2, <1>3, <1>4
     DEF IInv, AtRest, Collecting, Flushing, Working, Busy
<1>6. QED
  BY <1>1, <1>2, <1>5 DEF IInv, Kept

LEMMA StepKeeps == Fitting /\ IInv /\ [Next]_vars => IInv'
<1> SUFFICES ASSUME Fitting, IInv, [Next]_vars
             PROVE  IInv'
  OBVIOUS
<1>1. TypeInv'
  BY TypeStep DEF IInv, TypeInv
<1>2. ~GiveUp
  BY DEF IInv, GiveUp
<1>3. Kept'
  BY <1>2, BeginKeeps, SliceKeeps, NoMidFlush, EndEmptyKeeps, EndFlushesKeeps,
     SendKeeps, RefusedKeeps, AnsweredKeeps, SkipsKeeps, TimeOutKeeps,
     TakesKeeps, SkipsPadKeeps, CompletesKeeps, FailsKeeps, StutterKeeps
     DEF Next, Caller, Flush, Mtx
<1>4. QED
  BY <1>1, <1>3 DEF TypeInv, Kept, IInv

-----------------------------------------------------------------------------
(* The hardware reads every slice's commands and data as they were written *)
(* for it ("Every slice of one picture stays here until                    *)
(* msvdx_decode_end()", msvdx_decode.c).                                   *)
THEOREM OwnDataAlways ==
    ASSUME Careful, Fitting
    PROVE  Spec => []OwnData
<1>1. Init => IInv
  BY InitHolds
<1>2. IInv /\ [Next]_vars => IInv'
  BY StepKeeps
<1>3. IInv => OwnData
  BY DEF IInv, Own, OwnData
<1>4. QED
  BY <1>1, <1>2, <1>3, PTL DEF Spec

(* "end() sends everything and waits for the hardware.  0 on success"      *)
(* (msvdx_decode.h) holds for pictures that fit.                           *)
THEOREM EndIsTrue ==
    ASSUME Careful, Fitting
    PROVE  Spec => []EndMeansExecuted
<1>1. Init => IInv
  BY InitHolds
<1>2. IInv /\ [Next]_vars => IInv'
  BY StepKeeps
<1>3. IInv => EndMeansExecuted
  BY DEF IInv, AtRest, Executes, EndMeansExecuted
<1>4. QED
  BY <1>1, <1>2, <1>3, PTL DEF Spec

(* The slices of the picture that were executed, as Api counts them.       *)
Done == {r.id.slice : r \in {q \in ran : q.intact /\ q.id.pic = pic}}

(* A step that leaves the picture and what was executed alone is no step   *)
(* of the API, unless the picture ends.                                    *)
LEMMA SameDone ==
    ASSUME UNCHANGED <<ran, pic>>
    PROVE  Done' = Done
BY DEF Done

(* When end() succeeds, exactly the slices of the picture were executed.   *)
LEMMA AllDone ==
    ASSUME Own, Executes
    PROVE  Done = 1 .. slices
<1>1. ASSUME NEW s \in Done
      PROVE  s \in 1 .. slices
  BY DEF Done, Own
<1>2. ASSUME NEW s \in 1 .. slices
      PROVE  s \in Done
  <2>1. PICK q \in ran : q.intact /\ q.id = Id(pic, s)
    BY DEF Executes
  <2>2. q.id.pic = pic /\ q.id.slice = s
    BY <2>1 DEF Id
  <2>3. QED
    BY <2>1, <2>2 DEF Done
<1>3. QED
  BY <1>1, <1>2

(* An execution is one slice more, or one that was counted already.        *)
LEMMA OneMore ==
    ASSUME NEW s \in 1 .. slices, NEW g,
           ran' = ran \cup {[id |-> Id(pic, s), fence |-> g, intact |-> TRUE]},
           pic' = pic
    PROVE  Done' = Done \cup {s}
<1>1. [id |-> Id(pic, s), fence |-> g, intact |-> TRUE].id.pic = pic
  BY DEF Id
<1>2. [id |-> Id(pic, s), fence |-> g, intact |-> TRUE].id.slice = s
  BY DEF Id
<1>3. [id |-> Id(pic, s), fence |-> g, intact |-> TRUE].intact
  OBVIOUS
<1>4. ASSUME NEW x
      PROVE  x \in Done' <=> x \in Done \cup {s}
  BY <1>1, <1>2, <1>3 DEF Done
<1>5. QED
  BY <1>4

LEMMA StepsOfApi ==
    Fitting /\ IInv /\ IInv' /\ [Next]_vars => [Api!ApiNext]_(Api!apiVars)
<1> SUFFICES ASSUME Fitting, IInv, IInv', [Next]_vars
             PROVE  [Api!ApiNext]_(Api!apiVars)
  OBVIOUS
<1>same. ASSUME UNCHANGED <<pic, slices, result, ran>>,
                (pc # "idle") <=> (pc' # "idle")
         PROVE  UNCHANGED Api!apiVars
  BY <1>same, SameDone DEF Api!apiVars, Done
<1>1. CASE Begin
  <2>1. /\ pic' = pic + 1 /\ pc' = "picture" /\ slices' = 0
        /\ result' = "none"
    BY <1>1 DEF Begin
  <2>2. \A q \in ran' : q.id.pic < pic'
    BY <2>1 DEF IInv, Collecting
  <2>3. \A q \in ran' : q.id.pic # pic'
    BY <2>2 DEF IInv, Typed, Ids
  <2>4. Done' = {}
    BY <2>3 DEF Done
  <2>5. Api!ApiBegin
    BY <2>1, <2>4 DEF Api!ApiBegin, Done
  <2>6. QED
    BY <2>5 DEF Api!ApiNext
<1>2. CASE SliceQueued
  <2>1. /\ pc = "picture" /\ slices < BitstreamSlices /\ slices' = slices + 1
        /\ UNCHANGED <<pic, result, pc, ran>>
    BY <1>2 DEF SliceQueued, WriteSlice, mtx
  <2>2. Api!ApiSlice
    BY <2>1, SameDone DEF Api!ApiSlice, Done
  <2>3. QED
    BY <2>2 DEF Api!ApiNext
<1>3. CASE EndEmpty
  <2>1. /\ pc = "picture" /\ pc' = "idle" /\ result' = "ok"
        /\ UNCHANGED <<pic, slices, ran>>
    BY <1>3 DEF EndEmpty, mtx
  <2>2. QED
    <3>1. Own /\ Executes
      BY <2>1 DEF IInv, AtRest, Executes, Id
    <3>2. Done = 1 .. slices
      BY <3>1, AllDone
    <3>3. Api!ApiEndOk
      BY <2>1, <3>2, SameDone DEF Api!ApiEndOk, Done
    <3>4. QED
      BY <3>3 DEF Api!ApiNext
<1>4. CASE EndFlushes
  BY <1>4, <1>same DEF EndFlushes, mtx
<1>5. CASE SendMessage
  BY <1>5, <1>same DEF SendMessage, mtx
<1>fail. ASSUME pc \in {"send", "wait"}, FlushReturns("fail"), ran' = ran
         PROVE  Api!ApiNext
  <2>1. inEnd = TRUE
    BY <1>fail DEF IInv, Flushing
  <2>2. /\ pc # "idle" /\ pc' = "idle" /\ result' = "fail"
        /\ UNCHANGED <<pic, slices>>
    BY <1>fail, <2>1 DEF FlushReturns
  <2>3. Api!ApiEndFail
    BY <1>fail, <2>2, SameDone DEF Api!ApiEndFail, Done
  <2>4. QED
    BY <2>3 DEF Api!ApiNext
<1>6. CASE SendRefused
  BY <1>6, <1>fail DEF SendRefused, mtx
<1>7. CASE WaitAnswered
  <2>1. /\ pc = "wait" /\ ran' = ran
        /\ FlushReturns(Verdict(Head(replies)))
    BY <1>7 DEF WaitAnswered
  <2>2. CASE Verdict(Head(replies)) = "fail"
    BY <1>fail, <2>1, <2>2
  <2>3. CASE Verdict(Head(replies)) # "fail"
    <3>1. FlushReturns("ok")
      BY <2>1, <2>3 DEF Verdict
    <3>2. inEnd = TRUE
      BY <2>1 DEF IInv, Flushing
    <3>3. /\ pc' = "idle" /\ result' = "ok"
          /\ UNCHANGED <<pic, slices>>
      BY <3>1, <3>2 DEF FlushReturns
    <3>4. Own /\ Executes
      BY <2>1, <3>3 DEF IInv, AtRest, Executes, Id
    <3>5. Done = 1 .. slices
      BY <3>4, AllDone
    <3>6. Api!ApiEndOk
      BY <2>1, <3>3, <3>5, SameDone DEF Api!ApiEndOk, Done
    <3>7. QED
      BY <3>6 DEF Api!ApiNext
  <2>4. QED
    BY <2>2, <2>3
<1>8. CASE WaitSkips
  BY <1>8, <1>same DEF WaitSkips, host
<1>9. CASE WaitTimesOut
  BY <1>9, <1>fail DEF WaitTimesOut, mtx
<1>10. CASE MtxTakes
  BY <1>10, <1>same DEF MtxTakes, host
<1>11. CASE MtxSkipsPad
  BY <1>11, <1>same DEF MtxSkipsPad, host, mtx
<1>run. ASSUME NEW s \in 1 .. slices, NEW g \in Nat, UNCHANGED host,
               ran' = ran \cup {[id |-> Id(pic, s), fence |-> g,
                                 intact |-> TRUE]}
        PROVE  [Api!ApiNext]_(Api!apiVars)
  <2>1. UNCHANGED <<pc, pic, slices, result>>
    BY <1>run DEF host
  <2>2. Done' = Done \cup {s}
    BY <1>run, <2>1, OneMore
  <2>3. CASE s \in Done
    BY <2>1, <2>2, <2>3 DEF Api!apiVars, Done
  <2>4. CASE s \notin Done
    <3>1. Api!ApiExecute
      BY <1>run, <2>1, <2>2, <2>4 DEF Api!ApiExecute, Done
    <3>2. QED
      BY <3>1 DEF Api!ApiNext
  <2>5. QED
    BY <2>3, <2>4
<1>12. CASE MtxCompletes
  <2>1. /\ running # Empty /\ Executed /\ running' = Empty
        /\ UNCHANGED <<host, memory, ring>>
        /\ \/ replies' = replies
           \/ replies' = Append(replies, Reply("completed", running.fence))
    BY <1>12 DEF MtxCompletes
  <2>2. QED
    BY <1>run, <2>1, ExecutedKeeps
<1>13. CASE MtxFails
  <2>1. /\ running # Empty /\ Executed /\ running' = Empty
        /\ UNCHANGED <<host, memory, ring>>
        /\ \E kind \in {"completed", "failed", "panic"} :
              replies' = Append(replies, Reply(kind, running.fence))
    BY <1>13 DEF MtxFails
  <2>2. QED
    BY <1>run, <2>1, ExecutedKeeps
<1>14. CASE UNCHANGED vars
  BY <1>14, <1>same DEF vars, host, mtx
<1>15. ~GiveUp /\ ~SliceFlushes
  BY NoMidFlush DEF IInv, GiveUp
<1>16. QED
  BY <1>1, <1>2, <1>3, <1>4, <1>5, <1>6, <1>7, <1>8, <1>9, <1>10, <1>11,
     <1>12, <1>13, <1>14, <1>15 DEF Next, Caller, Flush, Mtx

(* begin, slice and end do what msvdx_decode.h promises and nothing else:  *)
(* every step of the ring, the flush and the MTX is a step of PictureApi   *)
(* or leaves what the caller can see as it was.                            *)
THEOREM ApiImplemented ==
    ASSUME Careful, Fitting
    PROVE  Spec => ImplementsApi
<1>1. Init => IInv
  BY InitHolds
<1>2. IInv /\ [Next]_vars => IInv'
  BY StepKeeps
<1>3. Init => Api!ApiInit
  <2>1. Init => Done = {}
    BY DEF Init, Done
  <2>2. QED
    BY <2>1 DEF Init, Api!ApiInit, Done
<1>4. IInv /\ IInv' /\ [Next]_vars => [Api!ApiNext]_(Api!apiVars)
  BY StepsOfApi
<1>5. QED
  BY <1>1, <1>2, <1>3, <1>4, PTL DEF Spec, ImplementsApi, Api!ApiSpec
-----------------------------------------------------------------------------
(* What runs is in the order it was sent, for any caller and any batch,    *)
(* even when the ring overruns.  Slot k is one of those the reader has yet *)
(* to pass, reading on from r to w.                                        *)
InFront(k, r, w) ==
    IF r <= w THEN r <= k /\ k < w ELSE r <= k \/ k < w

(* Fence f was handed out after that of anything taken so far.             *)
Later(f) ==
    /\ \A q \in ran : q.fence < f
    /\ running # Empty => running.fence < f

Earlier(j, k) ==
    buf[Pos(j)] # Empty /\ buf[Pos(k)] # Empty =>
        buf[Pos(j)].fence < buf[Pos(k)].fence

(* Below w are the messages of this lap, from w on those of the lap before *)
(* it; and what is in front of the reader is later than all it has taken.  *)
(* An overrun moves w past r: a whole lap is never read, but none is read  *)
(* twice.                                                                  *)
Laps(r, w) ==
    /\ rd = Pos(r) /\ wr = Pos(w)
    /\ \A k \in 0 .. Slots - 1 :
          InFront(k, r, w) /\ buf[Pos(k)] # Empty => Later(buf[Pos(k)].fence)
    /\ \A j, k \in 0 .. Slots - 1 :
          /\ j < k /\ (k < w \/ w <= j) => Earlier(j, k)
          /\ j < w /\ w <= k => Earlier(k, j)

OrderInv ==
    /\ \A k \in 0 .. Slots - 1 :
          buf[Pos(k)] # Empty => buf[Pos(k)].fence < fence
    /\ Later(fence)
    /\ running # Empty => \A q \in ran : q.fence < running.fence
    /\ \E r, w \in 0 .. Slots : Laps(r, w)

(* Fences are numbers, in the ring and out of it.                          *)
LEMMA FencesAre ==
    ASSUME Typed
    PROVE  /\ fence \in Nat
           /\ \A k \in 0 .. Slots - 1 :
                 /\ Pos(k) \in Index
                 /\ buf[Pos(k)] # Empty => buf[Pos(k)].fence \in Nat
           /\ \A q \in ran : q.fence \in Nat
           /\ running # Empty => running.fence \in Nat
<1>1. /\ fence \in Nat /\ running \in Messages \cup {Empty}
      /\ buf \in [Index -> Messages \cup {Empty}]
      /\ ran \in SUBSET [id : Ids, fence : Nat, intact : BOOLEAN]
  BY DEF Typed
<1>2. \A k \in 0 .. Slots - 1 : Pos(k) \in Index
  BY SlotIs, SlotsAre
<1>3. QED
  BY <1>1, <1>2 DEF Messages

(* msvdx_send writes into the slot at w, or into the first one when the    *)
(* end is not wide enough, and moves on to the next.                       *)
LEMMA PutsInto ==
    ASSUME Typed, NEW m, Put(m), NEW r \in 0 .. Slots, NEW w \in 0 .. Slots,
           rd = Pos(r), wr = Pos(w)
    PROVE  \E a \in 0 .. Slots - 1, v \in 0 .. Slots :
              /\ rd' = Pos(r) /\ wr' = Pos(v)
              /\ buf'[Pos(a)] = m
              /\ \A k \in 0 .. Slots - 1 :
                    k # a => buf'[Pos(k)] = buf[Pos(k)]
              /\ a = w \/ (w = Slots /\ a = 0 /\ r # 0)
              /\ v = a + 1 \/ (v = 0 /\ a + 1 = Slots)
<1>1. Slots \in Nat \ {0}
  BY SlotsAre
<1>2. PICK a \in 0 .. Slots - 1 :
        /\ buf' = [buf EXCEPT ![Pos(a)] = m] /\ wr' = Step(Pos(a))
        /\ a = w \/ (w = Slots /\ a = 0 /\ r # 0)
  <2>1. CASE Fits(wr)
    <3>1. w \in 0 .. Slots - 1
      BY <1>1, <2>1, SlotIs
    <3>2. buf' = [buf EXCEPT ![Pos(w)] = m] /\ wr' = Step(Pos(w))
      BY <2>1 DEF Put
    <3>3. QED
      BY <3>1, <3>2
  <2>2. CASE ~Fits(wr)
    <3>1. w = Slots /\ r # 0
      BY <1>1, <2>2, SlotIs, FirstSlot DEF Put, MayWrap
    <3>2. 0 \in 0 .. Slots - 1
      BY <1>1
    <3>3. buf' = [buf EXCEPT ![Pos(0)] = m] /\ wr' = Step(Pos(0))
      BY <2>2, FirstSlot DEF Put
    <3>4. QED
      BY <3>1, <3>2, <3>3
  <2>3. QED
    BY <2>1, <2>2
<1>3. PICK v \in 0 .. Slots :
        Step(Pos(a)) = Pos(v) /\ (v = a + 1 \/ (v = 0 /\ a + 1 = Slots))
  BY StepIs
<1>4. buf \in [Index -> Messages \cup {Empty}] /\ Pos(a) \in Index
  BY FencesAre DEF Typed
<1>5. \A k \in 0 .. Slots - 1 : Pos(k) \in Index /\ (Pos(k) = Pos(a) => k = a)
  <2>1. \A k \in 0 .. Slots - 1 : k \in 0 .. Slots
    BY <1>1
  <2>2. QED
    BY <2>1, FencesAre, SlotsDiffer
<1>6. /\ buf'[Pos(a)] = m
      /\ \A k \in 0 .. Slots - 1 : k # a => buf'[Pos(k)] = buf[Pos(k)]
  BY <1>2, <1>4, <1>5
<1>7. rd' = Pos(r)
  BY DEF Put
<1>8. QED
  BY <1>2, <1>3, <1>6, <1>7

(* A message that was sent is later than all before it.                    *)
LEMMA SendOrders ==
    ASSUME TypeInv, OrderInv, SendMessage PROVE OrderInv'
<1>1. /\ Put(Sent(msgs[sent + 1], fence, sent + 1 = Len(msgs)))
      /\ fence' = fence + 1 /\ running' = running /\ ran' = ran
  BY DEF SendMessage, mtx
<1> DEFINE m == Sent(msgs[sent + 1], fence, sent + 1 = Len(msgs))
<1>2. m.fence = fence
  BY DEF Sent
<1> HIDE DEF m
<1>3. PICK r \in 0 .. Slots, w \in 0 .. Slots : Laps(r, w)
  BY DEF OrderInv
<1>4. Typed /\ Slots \in Nat \ {0}
  BY SlotsAre DEF TypeInv
<1>5. PICK a \in 0 .. Slots - 1, v \in 0 .. Slots :
         /\ rd' = Pos(r) /\ wr' = Pos(v)
         /\ buf'[Pos(a)] = m
         /\ \A k \in 0 .. Slots - 1 : k # a => buf'[Pos(k)] = buf[Pos(k)]
         /\ a = w \/ (w = Slots /\ a = 0 /\ r # 0)
         /\ v = a + 1 \/ (v = 0 /\ a + 1 = Slots)
  <2>1. Put(m) /\ rd = Pos(r) /\ wr = Pos(w)
    BY <1>1, <1>3 DEF m, Laps
  <2>2. QED
    BY <1>4, <2>1, PutsInto
<1>6. /\ fence \in Nat
      /\ \A k \in 0 .. Slots - 1 :
            buf[Pos(k)] # Empty => buf[Pos(k)].fence \in Nat
      /\ \A q \in ran : q.fence \in Nat
      /\ running # Empty => running.fence \in Nat
  BY <1>4, FencesAre
<1>7. \A k \in 0 .. Slots - 1 :
         buf[Pos(k)] # Empty => buf[Pos(k)].fence < fence
  BY DEF OrderInv
<1>8. \A f : Later(f)' <=> Later(f)
  BY <1>1 DEF Later
<1>9. Later(fence) /\ Later(fence + 1)
  BY <1>6 DEF OrderInv, Later
<1>10. ASSUME NEW k \in 0 .. Slots - 1, InFront(k, r, v), buf'[Pos(k)] # Empty
       PROVE  Later(buf'[Pos(k)].fence)
  <2>1. CASE k = a
    BY <1>2, <1>5, <1>9, <2>1
  <2>2. CASE k # a
    <3>1. InFront(k, r, w)
      BY <1>4, <1>5, <1>10, <2>2 DEF InFront
    <3>2. QED
      BY <1>3, <1>5, <1>10, <2>2, <3>1 DEF Laps
  <2>3. QED
    BY <2>1, <2>2
<1>11. ASSUME NEW j \in 0 .. Slots - 1, NEW k \in 0 .. Slots - 1,
              \/ j < k /\ (k < v \/ v <= j)
              \/ k < v /\ v <= j
       PROVE  Earlier(j, k)'
  <2>1. CASE k = a
    <3>1. j # a
      BY <1>4, <1>11, <2>1
    <3>2. QED
      BY <1>2, <1>5, <1>7, <2>1, <3>1 DEF Earlier
  <2>2. CASE k # a
    <3>1. /\ j # a
          /\ \/ j < k /\ (k < w \/ w <= j)
             \/ k < w /\ w <= j
      BY <1>4, <1>5, <1>11, <2>2
    <3>2. Earlier(j, k)
      BY <1>3, <3>1 DEF Laps
    <3>3. QED
      BY <1>5, <2>2, <3>1, <3>2 DEF Earlier
  <2>3. QED
    BY <2>1, <2>2
<1>12. Laps(r, v)'
  BY <1>5, <1>8, <1>10, <1>11 DEF Laps
<1>13. \A k \in 0 .. Slots - 1 :
          buf'[Pos(k)] # Empty => buf'[Pos(k)].fence < fence'
  BY <1>1, <1>2, <1>5, <1>6, <1>7
<1>14. Later(fence)'
  BY <1>1, <1>8, <1>9
<1>15. running' # Empty => \A q \in ran' : q.fence < running'.fence
  BY <1>1 DEF OrderInv
<1>16. QED
  BY <1>12, <1>13, <1>14, <1>15 DEF OrderInv

(* What is taken is later than all that was taken before, and what is then *)
(* in front of the reader is later still.                                  *)
LEMMA TakeOrders ==
    ASSUME TypeInv, OrderInv, MtxTakes PROVE OrderInv'
<1>1. /\ running = Empty /\ Take /\ running' = buf[rd]
      /\ UNCHANGED <<buf, wr, ran, fence>>
  BY DEF MtxTakes, Take, NextUnread, host
<1>2. PICK r \in 0 .. Slots, w \in 0 .. Slots : Laps(r, w)
  BY DEF OrderInv
<1>3. Typed /\ Slots \in Nat \ {0}
  BY SlotsAre DEF TypeInv
<1>4. /\ rd = Pos(r) /\ wr = Pos(w) /\ r # w /\ r < Slots
      /\ rd' = Step(Pos(r))
  BY <1>1, <1>2, <1>3, SlotIs DEF Laps, Take, Unread
<1>5. PICK v \in 0 .. Slots :
        /\ Step(Pos(r)) = Pos(v)
        /\ v = r + 1 \/ (v = 0 /\ r + 1 = Slots /\ w # Slots)
  <2>1. wr \in Index
    BY <1>3 DEF Typed
  <2>2. QED
    BY <1>3, <1>4, <2>1, StepIs
<1>6. r \in 0 .. Slots - 1 /\ InFront(r, r, w)
  BY <1>3, <1>4 DEF InFront
<1> DEFINE m == buf[Pos(r)]
<1>7. running' = m
  BY <1>1, <1>4
<1>8. m # Empty => \A q \in ran : q.fence < m.fence
  BY <1>2, <1>6 DEF Laps, Later
<1>9. /\ fence \in Nat
      /\ \A k \in 0 .. Slots - 1 :
            buf[Pos(k)] # Empty => buf[Pos(k)].fence \in Nat
  BY <1>3, FencesAre
<1>10. ASSUME NEW k \in 0 .. Slots - 1, InFront(k, v, w), buf[Pos(k)] # Empty
       PROVE  Later(buf[Pos(k)].fence)'
  <2>1. /\ InFront(k, r, w)
        /\ \/ r < k /\ (k < w \/ w <= r)
           \/ k < w /\ w <= r
    <3>1. Slots \in Nat /\ r < Slots /\ r # w
      BY <1>3, <1>4
    <3>2. CASE v = r + 1
      BY <3>1, <3>2, <1>10 DEF InFront
    <3>3. CASE v = 0 /\ r + 1 = Slots /\ w # Slots
      BY <3>1, <3>3, <1>10 DEF InFront
    <3>4. QED
      BY <1>5, <3>2, <3>3
  <2>2. Later(buf[Pos(k)].fence)
    BY <1>2, <1>10, <2>1 DEF Laps
  <2>3. Earlier(r, k)
    BY <1>2, <1>6, <2>1 DEF Laps
  <2>4. QED
    BY <1>1, <1>7, <1>10, <2>2, <2>3 DEF Later, Earlier
<1>11. Laps(v, w)'
  <2>1. \A j, k : Earlier(j, k)' <=> Earlier(j, k)
    BY <1>1 DEF Earlier
  <2>2. QED
    BY <1>1, <1>2, <1>4, <1>5, <1>10, <2>1 DEF Laps
<1>12. Later(fence)'
  <2>1. m # Empty => m.fence < fence
    BY <1>6 DEF OrderInv
  <2>2. QED
    BY <1>1, <1>7, <2>1 DEF OrderInv, Later
<1>13. QED
  BY <1>1, <1>7, <1>8, <1>11, <1>12 DEF OrderInv

(* The pad is no message.                                                  *)
LEMMA SkipOrders ==
    ASSUME TypeInv, OrderInv, MtxSkipsPad PROVE OrderInv'
<1>1. /\ rd # wr /\ ~Fits(rd) /\ rd' = 0
      /\ UNCHANGED <<buf, wr, running, ran, fence>>
  BY DEF MtxSkipsPad, SkipPad, host, mtx
<1>2. PICK r \in 0 .. Slots, w \in 0 .. Slots : Laps(r, w)
  BY DEF OrderInv
<1>3. Slots \in Nat \ {0}
  BY SlotsAre
<1>4. r = Slots /\ w # Slots
  BY <1>1, <1>2, <1>3, SlotIs DEF Laps
<1>5. 0 \in 0 .. Slots /\ rd' = Pos(0)
  BY <1>1, <1>3, FirstSlot
<1>6. \A k \in 0 .. Slots - 1 : InFront(k, 0, w) => InFront(k, r, w)
  BY <1>3, <1>4 DEF InFront
<1>7. Laps(0, w)'
  BY <1>1, <1>2, <1>5, <1>6 DEF Laps, Later, Earlier
<1>8. QED
  BY <1>1, <1>5, <1>7 DEF OrderInv, Later

(* What was executed was running before.                                   *)
LEMMA ExecutedOrders ==
    ASSUME TypeInv, OrderInv, running # Empty, Executed, running' = Empty,
           UNCHANGED <<ring, fence>>
    PROVE  OrderInv'
<1> DEFINE e == [id |-> running.id, fence |-> running.fence,
                 intact |-> Intact(running.id)]
<1>0. ran' = ran \cup {e} /\ e.fence = running.fence
  BY DEF Executed
<1> HIDE DEF e
<1>1. PICK q : ran' = ran \cup {q} /\ q.fence = running.fence
  BY <1>0
<1>2. \A f : Later(f) => Later(f)'
  BY <1>1 DEF Later
<1>3. UNCHANGED <<buf, rd, wr>>
  BY DEF ring
<1>4. PICK r \in 0 .. Slots, w \in 0 .. Slots : Laps(r, w)
  BY DEF OrderInv
<1>5. Laps(r, w)'
  BY <1>2, <1>3, <1>4 DEF Laps, Earlier
<1>6. QED
  BY <1>2, <1>3, <1>5 DEF OrderInv

(* A fence that is skipped leaves a gap and no disorder.                   *)
LEMMA FenceOrders ==
    ASSUME TypeInv, OrderInv, fence' \in {fence, fence + 1},
           UNCHANGED <<ring, running, ran>>
    PROVE  OrderInv'
<1>1. UNCHANGED <<buf, rd, wr, running, ran>>
  BY DEF ring
<1>2. Typed
  BY DEF TypeInv
<1>3. PICK r \in 0 .. Slots, w \in 0 .. Slots : Laps(r, w)
  BY DEF OrderInv
<1>4. Laps(r, w)'
  BY <1>1, <1>3 DEF Laps, Later, Earlier
<1>5. \A k \in 0 .. Slots - 1 :
         buf[Pos(k)] # Empty => buf[Pos(k)].fence < fence'
  BY <1>2, FencesAre DEF OrderInv
<1>6. Later(fence')
  BY <1>2, FencesAre DEF OrderInv, Later
<1>7. QED
  BY <1>1, <1>4, <1>5, <1>6 DEF OrderInv, Later

(* The first message is yet to come.                                       *)
LEMMA InitOrders == Init => OrderInv
<1> SUFFICES ASSUME Init PROVE OrderInv
  OBVIOUS
<1>1. /\ fence = 1 /\ running = Empty /\ ran = {}
      /\ buf = [i \in Index |-> Empty] /\ rd = 0 /\ wr = 0
  BY DEF Init, RingInit
<1>2. \A k \in 0 .. Slots - 1 : buf[Pos(k)] = Empty
  BY <1>1, SlotIs, SlotsAre
<1>3. 0 \in 0 .. Slots /\ rd = Pos(0) /\ wr = Pos(0)
  BY <1>1, FirstSlot, SlotsAre
<1>4. Laps(0, 0)
  BY <1>2, <1>3 DEF Laps, Earlier
<1>5. QED
  BY <1>1, <1>2, <1>3, <1>4 DEF OrderInv, Later

(* Every step keeps the order.                                             *)
LEMMA OrderStep == TypeInv /\ OrderInv /\ [Next]_vars => OrderInv'
<1> SUFFICES ASSUME TypeInv, OrderInv, [Next]_vars PROVE OrderInv'
  OBVIOUS
<1>1. CASE SendMessage
  BY <1>1, SendOrders
<1>2. CASE MtxTakes
  BY <1>2, TakeOrders
<1>3. CASE MtxSkipsPad
  BY <1>3, SkipOrders
<1>4. CASE MtxCompletes \/ MtxFails
  BY <1>4, ExecutedOrders DEF MtxCompletes, MtxFails, host
<1>5. CASE \/ Caller \/ SendRefused \/ WaitAnswered \/ WaitSkips
           \/ WaitTimesOut \/ UNCHANGED vars
  <2>1. fence' \in {fence, fence + 1} /\ UNCHANGED <<ring, running, ran>>
    BY <1>5 DEF Caller, Begin, SliceQueued, SliceFlushes, WriteSlice,
                EndEmpty, EndFlushes, GiveUp, SendRefused, WaitAnswered,
                WaitSkips, WaitTimesOut, host, mtx, vars
  <2>2. QED
    BY <2>1, FenceOrders
<1>6. QED
  BY <1>1, <1>2, <1>3, <1>4, <1>5 DEF Next, Flush, Mtx

(* What the MTX takes off the ring was sent after everything it executed   *)
(* before: nothing runs twice and nothing runs out of order, whatever the  *)
(* caller does, whatever times out, and even when a batch longer than the  *)
(* ring overruns it.                                                       *)
THEOREM RunsInOrder == Spec => ExecutesInOrder
<1>1. ASSUME TypeInv, OrderInv, OrderInv', [Next]_vars
      PROVE  [running' # running /\ running' # Empty =>
                 \A r \in ran : r.fence < running'.fence]_vars
  <2>1. CASE MtxTakes
    BY <1>1, <2>1 DEF MtxTakes, OrderInv
  <2>2. CASE ~MtxTakes
    <3>1. running' = running \/ running' = Empty
      BY <1>1, <2>2 DEF Next, Caller, Begin, SliceQueued, SliceFlushes,
         EndEmpty, EndFlushes, GiveUp, Flush, SendMessage, SendRefused,
         WaitAnswered, WaitSkips, WaitTimesOut, Mtx, MtxSkipsPad,
         MtxCompletes, MtxFails, mtx, vars
    <3>2. QED
      BY <3>1
  <2>3. QED
    BY <2>1, <2>2
<1>2. QED
  BY <1>1, TypeInit, TypeStep, InitOrders, OrderStep, PTL
     DEF Spec, ExecutesInOrder

=============================================================================

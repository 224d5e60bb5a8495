---------------------- MODULE HaikuMsvdxDecoder_proof ----------------------
(***************************************************************************)
(* Proofs about HaikuMsvdxDecoder, for any pool size, any DPB sizes and    *)
(* any number of buffers: no surface is shared, every frame shows its own  *)
(* picture, and it has its own timestamp and its surface was there if      *)
(* timestamps and surfaces are kept for as many pictures as may wait       *)
(* (StampsSuffice, PoolSuffices).                                          *)
(***************************************************************************)
EXTENDS HaikuMsvdxDecoder, FiniteSetTheorems, TLAPS

(* The pictures of A share no surface, and no surface of theirs is free    *)
(* according to f, which counts no surface twice.                          *)
Exclusive(A, f) ==
    /\ \A p, q \in A : p.surface = q.surface => p = q
    /\ \A p \in A : f[p.surface] = 0
    /\ \A s \in Surface : f[s] <= 1

(* One picture is decoded at a time, and it is in no list yet.             *)
Single ==
    /\ \A p, q \in current : p = q
    /\ current \cap (dpb \cup lists) = {}

(* A surface in the DPB holds its picture, and the MTX has nothing left to *)
(* write there.                                                            *)
Contents ==
    /\ \A p \in dpb : content[p.surface] = p.buf
    /\ \A p \in dpb, q \in late : p.surface # q.surface
    /\ phase = "decoded" =>
          /\ late = {}
          /\ \A p \in current : content[p.surface] = p.buf

(* The inductive invariant of HaikuMsvdxDecoder.                           *)
IInv ==
    /\ TypeOK
    /\ IsFiniteSet(Alive)
    /\ ~held =>
          Exclusive(Alive, free) /\ Single /\ Contents /\ OwnPixels

-----------------------------------------------------------------------------
(* Configure never asks for more surfaces than there may be.               *)
LEMMA CountBound == \A n \in Nat : Count(n) \in 0 .. MaxSurfaces
BY DecoderAssumption DEF Count

(* Taking a surface from a pool that has one leaves a natural number.      *)
LEMMA Predecessor == \A n \in Nat : n > 0 => n - 1 \in Nat
OBVIOUS

(* Giving surfaces back leaves a pool of naturals.                         *)
LEMMA GivenNat ==
    ASSUME TypeOK, NEW P, IsFiniteSet(P)
    PROVE  Given(P) \in [Surface -> Nat]
<1> SUFFICES ASSUME NEW s \in Surface
             PROVE  free[s] + Cardinality({p \in P : p.surface = s}) \in Nat
  BY DEF Given
<1>1. IsFiniteSet({p \in P : p.surface = s})
  BY FS_Subset
<1>2. Cardinality({p \in P : p.surface = s}) \in Nat
  BY <1>1, FS_CardinalityType
<1>3. free[s] \in Nat
  BY DEF TypeOK
<1>4. QED
  BY <1>2, <1>3

(* What ~MsvdxH264Picture does for the pictures of P: their surfaces are   *)
(* free once, the others are as they were.                                 *)
LEMMA GivenValue ==
    ASSUME TypeOK, Exclusive(Alive, free), NEW P \in SUBSET Alive,
           NEW s \in Surface
    PROVE  /\ (\E p \in P : p.surface = s) => Given(P)[s] = 1
           /\ ~(\E p \in P : p.surface = s) => Given(P)[s] = free[s]
<1> DEFINE here == {p \in P : p.surface = s}
<1>1. Given(P)[s] = free[s] + Cardinality(here)
  BY DEF Given
<1>2. free[s] \in Nat
  BY DEF TypeOK
<1>3. ASSUME NEW p \in P, p.surface = s PROVE Given(P)[s] = 1
  <2>1. here = {p}
    BY <1>3 DEF Exclusive
  <2>2. free[s] = 0
    BY <1>3 DEF Exclusive
  <2>3. Cardinality({p}) = 1
    BY FS_Singleton
  <2>4. QED
    BY <1>1, <2>1, <2>2, <2>3
<1>4. ASSUME ~(\E p \in P : p.surface = s) PROVE Given(P)[s] = free[s]
  <2>1. here = {}
    BY <1>4
  <2>2. QED
    BY <1>1, <1>2, <2>1, FS_EmptySet
<1>5. QED
  BY <1>3, <1>4

(* When the pictures of P are dropped, those that stay keep their surfaces *)
(* to themselves.                                                          *)
LEMMA GiveBack ==
    ASSUME TypeOK, Exclusive(Alive, free), NEW P \in SUBSET Alive,
           NEW Q \in SUBSET (Alive \ P)
    PROVE  Exclusive(Q, Given(P))
<1>1. \A p \in Alive : p.surface \in Surface
  BY DEF TypeOK, Alive, Pictures
<1>2. ASSUME NEW q \in Q PROVE Given(P)[q.surface] = 0
  <2>1. ~(\E p \in P : p.surface = q.surface)
    BY DEF Exclusive
  <2>2. QED
    BY <1>1, <2>1, GivenValue DEF Exclusive
<1>3. ASSUME NEW s \in Surface PROVE Given(P)[s] <= 1
  BY GivenValue DEF Exclusive
<1>4. QED
  BY <1>2, <1>3 DEF Exclusive

-----------------------------------------------------------------------------
(* The initial state satisfies IInv.                                       *)
LEMMA InitIInv == Init => IInv
<1> SUFFICES ASSUME Init PROVE IInv
  OBVIOUS
<1>1. TypeOK
  <2>1. surfaces \in 0 .. MaxSurfaces
    BY DecoderAssumption DEF Init
  <2>2. free \in [Surface -> Nat] /\ content \in [Surface -> Nat]
    BY DEF Init
  <2>3. QED
    BY <2>1, <2>2 DEF Init, TypeOK
<1>2. Alive = {}
  BY DEF Init, Alive
<1>3. IsFiniteSet(Alive)
  BY <1>2, FS_EmptySet
<1>4. Exclusive(Alive, free)
  BY <1>2 DEF Init, Exclusive
<1>5. Single /\ Contents /\ OwnPixels
  BY DEF Init, Single, Contents, OwnPixels
<1>6. QED
  BY <1>1, <1>3, <1>4, <1>5 DEF IInv

(* The pictures alive stay finitely many.                                  *)
LEMMA NextFinite ==
    ASSUME IsFiniteSet(Alive), Next PROVE IsFiniteSet(Alive')
<1>1. CASE Alive' \subseteq Alive
  BY <1>1, FS_Subset
<1>2. CASE CreatePicture
  <2>1. PICK p : Alive' = Alive \cup {p}
    BY <1>2 DEF CreatePicture, Alive
  <2>2. QED
    BY <2>1, FS_AddElement
<1>3. ASSUME ~CreatePicture PROVE Alive' \subseteq Alive
  <2> USE DEF Alive
  <2>1. CASE Initialize          BY <2>1 DEF Initialize
  <2>2. CASE Decode              BY <2>2 DEF Decode
  <2>3. CASE ConfigChange        BY <2>3 DEF ConfigChange
  <2>4. CASE ConfigFails         BY <2>4 DEF ConfigFails
  <2>5. CASE RunOut              BY <2>5 DEF RunOut
  <2>6. CASE SubmitFrameMetadata BY <2>6 DEF SubmitFrameMetadata
  <2>7. CASE SubmitDecode        BY <2>7 DEF SubmitDecode
  <2>8. CASE StorePicture        BY <2>8 DEF StorePicture
  <2>9. CASE DecodeFails         BY <2>9 DEF DecodeFails
  <2>10. CASE \E p \in late : LateWrite(p)
    BY <2>10 DEF LateWrite
  <2>11. CASE \E p \in dpb \cup Decoded : Output(p)
    BY <2>11 DEF Output
  <2>12. CASE \E p \in dpb : LeaveDpb(p)
    BY <2>12 DEF LeaveDpb
  <2>13. CASE BufferDone         BY <2>13 DEF BufferDone
  <2>14. CASE Flush              BY <2>14 DEF Flush
  <2>15. CASE FlushDone          BY <2>15 DEF FlushDone
  <2>16. CASE Reset              BY <2>16 DEF Reset
  <2>17. QED
    BY <1>3, <2>1, <2>2, <2>3, <2>4, <2>5, <2>6, <2>7, <2>8, <2>9, <2>10,
       <2>11, <2>12, <2>13, <2>14, <2>15, <2>16 DEF Next
<1>4. QED
  BY <1>1, <1>2, <1>3

(* Every step keeps the state well typed.                                  *)
LEMMA NextTypeOK ==
    ASSUME TypeOK, IsFiniteSet(Alive), Next PROVE TypeOK'
<1>1. /\ IsFiniteSet(Alive \ lists')
      /\ IsFiniteSet(Alive)
      /\ IsFiniteSet(current)
      /\ IsFiniteSet(dpb \ lists)
      /\ \A R : IsFiniteSet(lists \ R)
      /\ \A p : IsFiniteSet({p} \ lists)
  <2>1. IsFiniteSet(current) /\ IsFiniteSet(dpb) /\ IsFiniteSet(lists)
    BY FS_Subset DEF Alive
  <2>2. \A p : IsFiniteSet({p})
    BY FS_Singleton
  <2>3. QED
    BY <2>1, <2>2, FS_Difference
<1>2. /\ Given(Alive \ lists') \in [Surface -> Nat]
      /\ Given(Alive) \in [Surface -> Nat]
      /\ Given(current) \in [Surface -> Nat]
      /\ Given(dpb \ lists) \in [Surface -> Nat]
      /\ \A R : Given(lists \ R) \in [Surface -> Nat]
      /\ \A p : Given({p} \ lists) \in [Surface -> Nat]
  BY <1>1, GivenNat
<1> USE DEF TypeOK
<1>3. CASE Initialize          BY <1>3 DEF Initialize
<1>4. CASE Decode              BY <1>4 DEF Decode
<1>5. CASE ConfigChange
  BY <1>5, DecoderAssumption, CountBound DEF ConfigChange, PoolReset
<1>6. CASE ConfigFails
  <2>1. surfaces' \in 0 .. MaxSurfaces /\ dpbSize' \in DpbSizes \cup {0}
    BY <1>6, DecoderAssumption DEF ConfigFails
  <2>2. free' \in [Surface -> Nat] /\ content' \in [Surface -> Nat]
    BY <1>2, <1>6 DEF ConfigFails
  <2>3. lists' \in SUBSET Pictures
    BY <1>6 DEF ConfigFails
  <2>4. QED
    BY <1>6, <2>1, <2>2, <2>3 DEF ConfigFails
<1>7. CASE CreatePicture
  <2>1. PICK s \in Surface :
          /\ free[s] > 0
          /\ free' = [free EXCEPT ![s] = @ - 1]
          /\ current' = {Picture(fed, s)}
    BY <1>7 DEF CreatePicture
  <2>2. free' \in [Surface -> Nat]
    <3>1. free[s] \in Nat /\ free[s] > 0
      BY <2>1
    <3>2. free[s] - 1 \in Nat
      BY <3>1, Predecessor
    <3>3. QED
      BY <2>1, <3>2
  <2>3. Picture(fed, s) \in Pictures
    BY DEF Picture, Pictures
  <2>4. QED
    BY <1>7, <2>1, <2>2, <2>3 DEF CreatePicture
<1>8. CASE RunOut              BY <1>8 DEF RunOut
<1>9. CASE SubmitFrameMetadata
  BY <1>2, <1>9 DEF SubmitFrameMetadata
<1>10. CASE SubmitDecode       BY <1>10 DEF SubmitDecode, Pictures
<1>11. CASE StorePicture       BY <1>2, <1>11 DEF StorePicture
<1>12. CASE DecodeFails        BY <1>12 DEF DecodeFails
<1>13. CASE \E p \in late : LateWrite(p)
  BY <1>13 DEF LateWrite, Pictures
<1>14. CASE \E p \in dpb \cup Decoded : Output(p)
  <2>1. PICK p \in dpb \cup Decoded : Output(p)
    BY <1>14
  <2>2. p.buf \in Nat /\ p.surface \in Surface
    BY DEF Decoded, Pictures
  <2>3. [buf |-> p.buf, shows |-> content[p.surface],
         stamp |-> IF p.buf \in stamps THEN p.buf ELSE 0]
           \in [buf : Nat, shows : Nat, stamp : Nat]
    BY <2>2
  <2>4. output' \in SUBSET [buf : Nat, shows : Nat, stamp : Nat]
    BY <2>1, <2>3 DEF Output
  <2>5. QED
    BY <2>1, <2>2, <2>4 DEF Output
<1>15. CASE \E p \in dpb : LeaveDpb(p)
  BY <1>2, <1>15 DEF LeaveDpb
<1>16. CASE BufferDone         BY <1>16 DEF BufferDone, Trim
<1>17. CASE Flush              BY <1>17 DEF Flush
<1>18. CASE FlushDone          BY <1>2, <1>18 DEF FlushDone
<1>19. CASE Reset              BY <1>2, <1>19 DEF Reset
<1>20. QED
  BY <1>3, <1>4, <1>5, <1>6, <1>7, <1>8, <1>9, <1>10, <1>11, <1>12, <1>13,
     <1>14, <1>15, <1>16, <1>17, <1>18, <1>19 DEF Next

-----------------------------------------------------------------------------
(* A step that changes no picture and no surface changes nothing of the    *)
(* pool.                                                                   *)
Idle == UNCHANGED <<surfaces, free, current, dpb, lists, content, late, held>>

(* Feeding a buffer, finishing one, flushing and running out are such steps.*)
LEMMA IdleSteps ==
    ASSUME Decode \/ RunOut \/ BufferDone \/ Flush
    PROVE  /\ Idle /\ UNCHANGED output
           /\ phase # "decoded" /\ phase' # "decoded"
BY DEF Decode, RunOut, BufferDone, Flush, Idle

(* What has outlived its configuration is not forgotten.                   *)
LEMMA HeldStays == ASSUME TypeOK, Next, ~held' PROVE ~held
<1>1. CASE Decode \/ RunOut \/ BufferDone \/ Flush
  BY <1>1, IdleSteps DEF Idle
<1>2. QED
  BY <1>1 DEF Next, Initialize, ConfigChange, ConfigFails, CreatePicture,
     SubmitFrameMetadata, SubmitDecode, StorePicture, DecodeFails, LateWrite,
     Output, LeaveDpb, FlushDone, Reset

(* No step makes two pictures share a surface, or frees one in use.        *)
LEMMA NextExclusive ==
    ASSUME TypeOK, Exclusive(Alive, free), Single, Next, ~held'
    PROVE  Exclusive(Alive', free') /\ Single'
<1>1. CASE Decode \/ RunOut \/ BufferDone \/ Flush
  BY <1>1, IdleSteps DEF Idle, Alive, Single
<1>2. CASE Initialize
  <2>1. Alive' = {} /\ free' = [s \in Surface |-> 0]
    BY <1>2 DEF Initialize, Alive
  <2>2. QED
    BY <1>2, <2>1 DEF Initialize, Exclusive, Single
<1>3. CASE ConfigChange
  <2>1. Alive' = {} /\ current' = {}
    BY <1>3 DEF ConfigChange, Alive
  <2>2. \A s \in Surface : free'[s] <= 1
    BY <1>3 DEF ConfigChange, PoolReset
  <2>3. QED
    BY <2>1, <2>2 DEF Exclusive, Single
<1>4. CASE ConfigFails
  <2>1. lists' \subseteq lists /\ Alive' = lists' /\ current' = {}
    BY <1>4 DEF ConfigFails, Alive
  <2>2. Exclusive(Alive', Given(Alive \ lists'))
    BY <2>1, GiveBack DEF Alive
  <2>3. QED
    BY <1>4, <2>1, <2>2 DEF ConfigFails, Single
<1>5. CASE CreatePicture
  <2>1. PICK s \in Surface :
          /\ free[s] > 0
          /\ free' = [free EXCEPT ![s] = @ - 1]
          /\ current' = {Picture(fed, s)}
    BY <1>5 DEF CreatePicture
  <2>2. current = {} /\ dpb' = dpb /\ lists' = lists
    BY <1>5 DEF CreatePicture
  <2>3. Alive' = Alive \cup {Picture(fed, s)}
    BY <2>1, <2>2 DEF Alive
  <2>4. Picture(fed, s).surface = s
    BY DEF Picture
  <2>5. \A p \in Alive : p.surface # s /\ p.surface \in Surface
    <3>1. \A p \in Alive : p.surface \in Surface
      BY DEF TypeOK, Alive, Pictures
    <3>2. \A p \in Alive : free[p.surface] = 0
      BY DEF Exclusive
    <3>3. QED
      BY <2>1, <3>1, <3>2
  <2>6. free[s] = 1
    <3>1. free[s] \in Nat /\ free[s] <= 1 /\ free[s] > 0
      BY <2>1 DEF Exclusive, TypeOK
    <3>2. QED
      BY <3>1
  <2>7. free'[s] = 0 /\ \A t \in Surface \ {s} : free'[t] = free[t]
    <3>1. free \in [Surface -> Nat]
      BY DEF TypeOK
    <3>2. free'[s] = free[s] - 1
      BY <2>1, <3>1
    <3>3. QED
      BY <2>1, <2>6, <3>1, <3>2
  <2>8. Exclusive(Alive', free')
    BY <2>3, <2>4, <2>5, <2>7 DEF Exclusive
  <2>9. Single'
    BY <2>1, <2>2, <2>4, <2>5 DEF Single, Alive
  <2>10. QED
    BY <2>8, <2>9
<1>6. CASE SubmitFrameMetadata
  <2>1. PICK refs \in SUBSET dpb :
          lists' = refs /\ free' = Given(lists \ (refs \cup dpb))
    BY <1>6 DEF SubmitFrameMetadata
  <2>2. current' = current /\ dpb' = dpb
    BY <1>6 DEF SubmitFrameMetadata
  <2>3. Alive' \subseteq Alive \ (lists \ (refs \cup dpb))
    BY <2>1, <2>2 DEF Alive, Single
  <2>4. Exclusive(Alive', free')
    BY <2>1, <2>3, GiveBack DEF Alive
  <2>5. QED
    BY <2>1, <2>2, <2>4 DEF Single
<1>7. CASE SubmitDecode
  BY <1>7 DEF SubmitDecode, Alive, Single
<1>8. CASE StorePicture
  <2>1. current' = {} /\ lists' = lists
    BY <1>8 DEF StorePicture
  <2>2. CASE dpb' = dpb \cup current /\ free' = free
    BY <2>1, <2>2 DEF Alive, Single
  <2>3. CASE dpb' = dpb /\ free' = Given(current)
    <3>1. Alive' \subseteq Alive \ current
      BY <2>1, <2>3 DEF Alive, Single
    <3>2. QED
      BY <2>1, <2>3, <3>1, GiveBack DEF Alive, Single
  <2>4. QED
    BY <1>8, <2>2, <2>3 DEF StorePicture
<1>9. CASE DecodeFails
  BY <1>9 DEF DecodeFails, Alive, Single
<1>10. CASE \E p \in late : LateWrite(p)
  BY <1>10 DEF LateWrite, Alive, Single
<1>11. CASE \E p \in dpb \cup Decoded : Output(p)
  BY <1>11 DEF Output, Alive, Single
<1>12. CASE \E p \in dpb : LeaveDpb(p)
  <2>1. PICK p \in dpb : LeaveDpb(p)
    BY <1>12
  <2>2. /\ current' = current /\ lists' = lists
        /\ dpb' = dpb \ {p} /\ free' = Given({p} \ lists)
    BY <2>1 DEF LeaveDpb
  <2>3. Alive' \subseteq Alive \ ({p} \ lists)
    BY <2>2 DEF Alive, Single
  <2>4. Exclusive(Alive', free')
    BY <2>2, <2>3, GiveBack DEF Alive
  <2>5. QED
    BY <2>2, <2>4 DEF Single
<1>13. CASE FlushDone
  <2>1. /\ current' = current /\ lists' = lists
        /\ dpb' = {} /\ free' = Given(dpb \ lists)
    BY <1>13 DEF FlushDone
  <2>2. Alive' \subseteq Alive \ (dpb \ lists)
    BY <2>1 DEF Alive, Single
  <2>3. QED
    BY <2>1, <2>2, GiveBack DEF Alive, Single
<1>14. CASE Reset
  <2>1. Alive' = {} /\ free' = Given(Alive)
    BY <1>14 DEF Reset, Alive
  <2>2. Exclusive(Alive', free')
    BY <2>1, GiveBack
  <2>3. QED
    BY <1>14, <2>2 DEF Reset, Single
<1>15. QED
  BY <1>1, <1>2, <1>3, <1>4, <1>5, <1>6, <1>7, <1>8, <1>9, <1>10, <1>11,
     <1>12, <1>13, <1>14 DEF Next

-----------------------------------------------------------------------------
(* No step writes over a picture that waits in the DPB, and what is output *)
(* shows itself.                                                           *)
LEMMA NextContents ==
    ASSUME TypeOK, Exclusive(Alive, free), Single, Contents, OwnPixels,
           ~held, Next
    PROVE  Contents' /\ OwnPixels'
<1> USE DEF Contents
<1>1. ASSUME UNCHANGED output PROVE OwnPixels'
  BY <1>1 DEF OwnPixels
<1>2. CASE Decode \/ RunOut \/ BufferDone \/ Flush
  BY <1>1, <1>2, IdleSteps DEF Idle
<1>3. CASE Initialize
  BY <1>1, <1>3 DEF Initialize
<1>4. CASE ConfigChange
  BY <1>1, <1>4 DEF ConfigChange
<1>5. CASE ConfigFails
  BY <1>1, <1>5 DEF ConfigFails
<1>6. CASE CreatePicture
  BY <1>1, <1>6 DEF CreatePicture
<1>7. CASE SubmitFrameMetadata
  BY <1>1, <1>7 DEF SubmitFrameMetadata
<1>8. CASE SubmitDecode
  <2>1. PICK p \in current : content' = [content EXCEPT ![p.surface] = p.buf]
    BY <1>8 DEF SubmitDecode
  <2>2. /\ late' = {} /\ dpb' = dpb /\ current' = current
        /\ UNCHANGED output
    BY <1>8 DEF SubmitDecode
  <2>3. p.surface \in Surface /\ content'[p.surface] = p.buf
    BY <2>1 DEF TypeOK, Pictures
  <2>4. \A q \in current : q = p
    BY DEF Single
  <2>5. \A q \in dpb : q.surface # p.surface
    BY DEF Exclusive, Single, Alive
  <2>6. \A q \in dpb : content'[q.surface] = q.buf
    BY <2>1, <2>5 DEF TypeOK, Pictures
  <2>7. QED
    BY <1>1, <2>2, <2>3, <2>4, <2>6
<1>9. CASE StorePicture
  BY <1>1, <1>9 DEF StorePicture
<1>10. CASE DecodeFails
  <2>1. /\ UNCHANGED <<dpb, content, current, output>> /\ phase' = "failed"
        /\ late' \subseteq late \cup current
    BY <1>10 DEF DecodeFails
  <2>2. \A p \in dpb, q \in current : p.surface # q.surface
    BY DEF Exclusive, Single, Alive
  <2>3. QED
    BY <1>1, <2>1, <2>2
<1>11. CASE \E p \in late : LateWrite(p)
  <2>1. PICK p \in late : LateWrite(p)
    BY <1>11
  <2>2. /\ content' = [content EXCEPT ![p.surface] = p.buf]
        /\ late' = late \ {p}
        /\ UNCHANGED <<phase, dpb, current, output>>
    BY <2>1 DEF LateWrite
  <2>3. phase # "decoded" /\ \A q \in dpb : q.surface # p.surface
    OBVIOUS
  <2>4. \A q \in dpb : content'[q.surface] = q.buf
    BY <2>2, <2>3 DEF TypeOK, Pictures
  <2>5. QED
    BY <1>1, <2>2, <2>3, <2>4
<1>12. CASE \E p \in dpb \cup Decoded : Output(p)
  <2>1. PICK p \in dpb \cup Decoded : Output(p)
    BY <1>12
  <2>2. UNCHANGED <<phase, dpb, current, content, late>>
    BY <2>1 DEF Output
  <2>3. content[p.surface] = p.buf
    BY DEF Decoded
  <2>4. output' \subseteq
          output \cup {[buf |-> p.buf, shows |-> content[p.surface],
                       stamp |-> IF p.buf \in stamps THEN p.buf ELSE 0]}
    BY <2>1 DEF Output
  <2>5. \A o \in output' : o.shows = o.buf
    BY <2>3, <2>4 DEF OwnPixels
  <2>6. QED
    BY <2>2, <2>5 DEF OwnPixels
<1>13. CASE \E p \in dpb : LeaveDpb(p)
  BY <1>1, <1>13 DEF LeaveDpb
<1>14. CASE FlushDone
  BY <1>1, <1>14 DEF FlushDone
<1>15. CASE Reset
  BY <1>1, <1>15 DEF Reset
<1>16. QED
  BY <1>2, <1>3, <1>4, <1>5, <1>6, <1>7, <1>8, <1>9, <1>10, <1>11, <1>12,
     <1>13, <1>14, <1>15 DEF Next

(* IInv is inductive.                                                      *)
LEMMA NextIInv == IInv /\ [Next]_vars => IInv'
<1> SUFFICES ASSUME IInv, [Next]_vars PROVE IInv'
  OBVIOUS
<1>1. CASE Next
  <2>1. TypeOK' /\ IsFiniteSet(Alive')
    BY <1>1, NextTypeOK, NextFinite DEF IInv
  <2>2. ASSUME ~held'
        PROVE  Exclusive(Alive', free') /\ Single' /\ Contents' /\ OwnPixels'
    <3>1. ~held
      BY <1>1, <2>2, HeldStays DEF IInv
    <3>2. Exclusive(Alive, free) /\ Single /\ Contents /\ OwnPixels
      BY <3>1 DEF IInv
    <3>3. QED
      BY <1>1, <2>2, <3>1, <3>2, NextExclusive, NextContents DEF IInv
  <2>3. QED
    BY <2>1, <2>2 DEF IInv, Exclusive
<1>2. CASE UNCHANGED vars
  BY <1>2 DEF vars, IInv, TypeOK, Alive, Exclusive, Single, Contents,
     OwnPixels
<1>3. QED
  BY <1>1, <1>2

-----------------------------------------------------------------------------
(* IInv holds throughout.                                                  *)
THEOREM Invariant == Spec => []IInv
BY InitIInv, NextIInv, PTL DEF Spec

(* The decoder's state stays well typed: no surface number leaves the      *)
(* pool's range, and the pool never lends what it has not.                 *)
THEOREM TypeCorrect == Spec => []TypeOK
BY Invariant, PTL DEF IInv

(* SurfacePool: two pictures alive never share a surface, and a surface in *)
(* use is not in the pool, unless a picture outlives its configuration.    *)
THEOREM Exclusivity == Spec => []SurfaceExclusive
<1>1. IInv => SurfaceExclusive
  BY DEF IInv, Exclusive, SurfaceExclusive
<1>2. QED
  BY <1>1, Invariant, PTL

(* Every frame that is output shows the picture it was decoded from, under *)
(* the same condition, late writes of the MTX included.                    *)
THEOREM Pixels == Spec => []OwnPixels
<1>1. IInv => OwnPixels
  BY DEF IInv, OwnPixels
<1>2. QED
  BY <1>1, Invariant, PTL

-----------------------------------------------------------------------------
(* Timestamps.  timestamps_ is trimmed to KeptStamps (64), and a stream    *)
(* outputs a picture before Reorder more are fed (16 at most in H.264).    *)
StampsSuffice == Reorder <= KeptStamps

(* Every picture that may still be output has its timestamp.               *)
StampInv ==
    /\ \A i \in stamps : i <= fed
    /\ phase \in {"decoding", "submitted", "decoded"} => fed \in stamps
    /\ phase \in {"idle", "flushing"} => current = {}
    /\ \A p \in current : p.buf = fed
    /\ \A p \in dpb : p.buf \in shown \cup stamps
    /\ OwnStamp

(* A timestamp that is not among the KeptStamps newest numbers is the only *)
(* kind that timestamps_.erase takes.                                      *)
LEMMA TrimKeeps ==
    ASSUME TypeOK, \A i \in stamps : i <= fed,
           NEW b \in stamps, fed < b + KeptStamps
    PROVE  b \in Trim(stamps)
<1> DEFINE newer == {j \in stamps : j > b}
<1>1. b \in Nat /\ fed \in Nat /\ b <= fed /\ stamps \subseteq Nat
  BY DEF TypeOK
<1>2. newer \subseteq (b + 1) .. fed
  <2> SUFFICES ASSUME NEW j \in newer PROVE j \in (b + 1) .. fed
    OBVIOUS
  <2>1. j \in Nat /\ j > b /\ j <= fed
    BY <1>1
  <2> HIDE DEF newer
  <2>2. QED
    BY <1>1, <2>1
<1>3. /\ IsFiniteSet((b + 1) .. fed)
      /\ Cardinality((b + 1) .. fed) =
           IF b + 1 > fed THEN 0 ELSE fed - (b + 1) + 1
  BY <1>1, FS_Interval
<1>4. Cardinality((b + 1) .. fed) = fed - b
  BY <1>1, <1>3
<1>5. Cardinality(newer) \in Nat /\ Cardinality(newer) <= fed - b
  <2>1. IsFiniteSet(newer) /\ Cardinality(newer) <= fed - b
    BY <1>2, <1>3, <1>4, FS_Subset
  <2>2. QED
    BY <2>1, FS_CardinalityType
<1>6. Cardinality(newer) < KeptStamps
  <2> HIDE DEF newer
  <2>1. KeptStamps \in Nat
    BY DecoderAssumption
  <2>2. QED
    BY <1>1, <1>5, <2>1
<1>7. QED
  BY <1>6 DEF Trim

(* No step loses the timestamp of a picture that is still to be output.    *)
LEMMA NextStamp ==
    ASSUME StampsSuffice, TypeOK, StampInv, Next PROVE StampInv'
<1> USE DEF StampInv
<1>0. ASSUME UNCHANGED output PROVE OwnStamp'
  BY <1>0 DEF OwnStamp
<1>1. CASE Initialize
  BY <1>0, <1>1 DEF Initialize
<1>2. CASE Decode
  <2>1. /\ fed' = fed + 1 /\ stamps' = stamps \cup {fed + 1}
        /\ phase' = "decoding" /\ current' = {} /\ dpb' = dpb
        /\ shown' = shown /\ UNCHANGED output
    BY <1>2 DEF Decode
  <2>2. \A i \in stamps' : i <= fed'
    <3>1. fed \in Nat /\ stamps \subseteq Nat
      BY DEF TypeOK
    <3>2. QED
      BY <2>1, <3>1
  <2>3. QED
    BY <1>0, <2>1, <2>2
<1>3. CASE ConfigChange
  BY <1>0, <1>3 DEF ConfigChange
<1>4. CASE ConfigFails
  BY <1>0, <1>4 DEF ConfigFails
<1>5. CASE CreatePicture
  <2>1. PICK s \in Surface : current' = {Picture(fed, s)}
    BY <1>5 DEF CreatePicture
  <2>2. \A p \in current' : p.buf = fed
    BY <2>1 DEF Picture
  <2>3. QED
    BY <1>0, <1>5, <2>2 DEF CreatePicture
<1>6. CASE RunOut
  BY <1>0, <1>6 DEF RunOut
<1>7. CASE SubmitFrameMetadata
  BY <1>0, <1>7 DEF SubmitFrameMetadata
<1>8. CASE SubmitDecode
  BY <1>0, <1>8 DEF SubmitDecode
<1>9. CASE StorePicture
  <2>1. /\ dpb' \subseteq dpb \cup current /\ current' = {}
        /\ phase = "decoded" /\ phase' = "decoding"
        /\ UNCHANGED <<fed, stamps, shown, output>>
    BY <1>9 DEF StorePicture
  <2>2. \A p \in dpb' : p.buf \in shown' \cup stamps'
    BY <2>1
  <2>3. QED
    BY <1>0, <2>1, <2>2
<1>10. CASE DecodeFails
  BY <1>0, <1>10 DEF DecodeFails
<1>11. CASE \E p \in late : LateWrite(p)
  BY <1>0, <1>11 DEF LateWrite
<1>12. CASE \E p \in dpb \cup Decoded : Output(p)
  <2>1. PICK p \in dpb \cup Decoded : Output(p)
    BY <1>12
  <2>2. /\ UNCHANGED <<phase, fed, stamps, current, dpb>>
        /\ shown' = shown \cup {p.buf} /\ p.buf \notin shown
        /\ output' \subseteq
             output \cup {[buf |-> p.buf, shows |-> content[p.surface],
                          stamp |-> IF p.buf \in stamps THEN p.buf ELSE 0]}
    BY <2>1 DEF Output
  <2>3. p.buf \in stamps
    BY <2>2 DEF Decoded
  <2>4. OwnStamp'
    BY <2>2, <2>3 DEF OwnStamp
  <2>5. QED
    BY <2>2, <2>4
<1>13. CASE \E p \in dpb : LeaveDpb(p)
  BY <1>0, <1>13 DEF LeaveDpb
<1>14. CASE BufferDone
  <2>1. /\ stamps' = Trim(stamps) /\ phase' = "idle" /\ current = {}
        /\ UNCHANGED <<fed, current, dpb, shown, output>>
        /\ \A p \in dpb : p.buf \in shown \/ fed < p.buf + Reorder
    BY <1>14 DEF BufferDone
  <2>2. stamps' \subseteq stamps
    BY <2>1 DEF Trim
  <2>3. ASSUME NEW p \in dpb, p.buf \notin shown
        PROVE  p.buf \in stamps'
    <3>1. p.buf \in stamps /\ fed < p.buf + Reorder
      BY <2>1, <2>3
    <3>2. fed < p.buf + KeptStamps
      <4>1. p.buf \in Nat /\ fed \in Nat /\ Reorder \in Nat
            /\ KeptStamps \in Nat
        BY DecoderAssumption DEF TypeOK, Pictures
      <4>2. QED
        BY <3>1, <4>1 DEF StampsSuffice
    <3>3. QED
      BY <2>1, <3>1, <3>2, TrimKeeps
  <2>4. QED
    BY <1>0, <2>1, <2>2, <2>3
<1>15. CASE Flush
  BY <1>0, <1>15 DEF Flush
<1>16. CASE FlushDone
  BY <1>0, <1>16 DEF FlushDone
<1>17. CASE Reset
  BY <1>0, <1>17 DEF Reset
<1>18. QED
  BY <1>1, <1>2, <1>3, <1>4, <1>5, <1>6, <1>7, <1>8, <1>9, <1>10, <1>11,
     <1>12, <1>13, <1>14, <1>15, <1>16, <1>17 DEF Next

(* timestamps_: every frame that is output carries the timestamp of the    *)
(* buffer it came from, for any number of buffers, though old timestamps   *)
(* are erased, as long as StampsSuffice.                                   *)
THEOREM Stamps == ASSUME StampsSuffice PROVE Spec => []OwnStamp
<1>1. Init => StampInv
  BY DEF Init, StampInv, OwnStamp
<1>2. StampInv /\ TypeOK /\ [Next]_vars => StampInv'
  <2> SUFFICES ASSUME StampInv, TypeOK, [Next]_vars PROVE StampInv'
    OBVIOUS
  <2>1. CASE Next
    BY <2>1, NextStamp
  <2>2. CASE UNCHANGED vars
    BY <2>2 DEF vars, StampInv, OwnStamp
  <2>3. QED
    BY <2>1, <2>2
<1>3. StampInv => OwnStamp
  BY DEF StampInv
<1>4. QED
  BY <1>1, <1>2, <1>3, TypeCorrect, PTL DEF Spec

-----------------------------------------------------------------------------
(* Room in the pool.  Configure asks for the DPB's size and two more, and  *)
(* the limit of surfaces does not cut that short: H.264 has a DPB of 16    *)
(* pictures at most, and the limit is 24.                                  *)
PoolSuffices == \A n \in DpbSizes : n + 2 <= MaxSurfaces

(* Of the first n surfaces those that f has not got are used by P.         *)
Used(n, f, P) ==
    \A s \in 0 .. n - 1 : f[s] > 0 \/ \E p \in P : p.surface = s

(* The DPB respects its size; of the pictures in the reference lists only  *)
(* one more than fit the DPB can be alive, since the lists were taken from *)
(* a DPB that lacked the picture stored last.                              *)
Fits ==
    /\ Cardinality(dpb) <= dpbSize
    /\ Cardinality(dpb \cup lists) <= dpbSize + 1
    /\ phase \in {"submitted", "decoded"} =>
          Cardinality(dpb \cup lists) <= dpbSize

(* Until the first picture of a configuration is submitted the pool does   *)
(* not miss a surface but that one's: what the lists still hold came from  *)
(* another pool.                                                           *)
Unused ==
    /\ dpb = {}
    /\ phase \notin {"submitted", "decoded"}
    /\ Used(surfaces, free, current)

RoomInv ==
    /\ \A p, q \in current : p = q
    /\ dpbSize > 0 =>
          /\ surfaces \in {0, Count(dpbSize)}
          /\ \/ Unused
             \/ Fits /\ Used(surfaces, free, Alive)
    /\ NeverRunsOut

(* Sizes are natural numbers, and the surfaces configured are of the pool. *)
LEMMA Sizes ==
    ASSUME TypeOK
    PROVE  /\ dpbSize \in Nat /\ dpbSize \in DpbSizes \cup {0}
           /\ surfaces \in Nat /\ MaxSurfaces \in Nat
           /\ \A s \in 0 .. surfaces - 1 : s \in Surface
<1>1. dpbSize \in DpbSizes \cup {0} /\ surfaces \in 0 .. MaxSurfaces
  BY DEF TypeOK
<1>2. DpbSizes \subseteq Nat /\ MaxSurfaces \in Nat
  BY DecoderAssumption
<1>3. surfaces \in Nat /\ surfaces <= MaxSurfaces
  BY <1>1, <1>2
<1>4. ASSUME NEW s \in 0 .. surfaces - 1 PROVE s \in 0 .. MaxSurfaces - 1
  BY <1>2, <1>3
<1>5. QED
  BY <1>1, <1>2, <1>3, <1>4 DEF Surface

(* One element more adds at most one to the cardinality.                   *)
LEMMA AtMostOneMore ==
    ASSUME NEW S, IsFiniteSet(S), NEW x
    PROVE  Cardinality(S \cup {x}) <= Cardinality(S) + 1
<1>1. Cardinality(S \cup {x}) =
         IF x \in S THEN Cardinality(S) ELSE Cardinality(S) + 1
  BY FS_AddElement
<1>2. Cardinality(S) \in Nat
  BY FS_CardinalityType
<1> DEFINE c == Cardinality(S)
<1> HIDE DEF c
<1>3. c \in Nat /\ Cardinality(S \cup {x}) \in {c, c + 1}
  BY <1>1, <1>2 DEF c
<1>4. Cardinality(S \cup {x}) <= c + 1
  BY <1>3
<1>5. QED
  BY <1>4 DEF c

(* What ~MsvdxH264Picture gives back the pool has, whatever it had before. *)
LEMMA GivenMore ==
    ASSUME TypeOK, NEW P, IsFiniteSet(P), NEW s \in Surface
    PROVE  /\ free[s] > 0 => Given(P)[s] > 0
           /\ (\E p \in P : p.surface = s) => Given(P)[s] > 0
<1> DEFINE here == {p \in P : p.surface = s}
<1>1. Given(P)[s] = free[s] + Cardinality(here)
  BY DEF Given
<1>2. IsFiniteSet(here)
  BY FS_Subset
<1>3. free[s] \in Nat /\ Cardinality(here) \in Nat
  BY <1>2, FS_CardinalityType DEF TypeOK
<1>4. (\E p \in P : p.surface = s) => Cardinality(here) # 0
  BY <1>2, FS_EmptySet
<1> HIDE DEF here
<1>5. QED
  BY <1>1, <1>3, <1>4

(* Pictures that are dropped may be forgotten: the pool has their surfaces.*)
LEMMA UsedGiven ==
    ASSUME TypeOK, NEW P, IsFiniteSet(P), NEW A, NEW B, A \ P \subseteq B,
           Used(surfaces, free, A)
    PROVE  Used(surfaces, Given(P), B)
<1> SUFFICES ASSUME NEW s \in 0 .. surfaces - 1
             PROVE  Given(P)[s] > 0 \/ \E p \in B : p.surface = s
  BY DEF Used
<1>1. s \in Surface
  BY Sizes
<1>2. free[s] > 0 \/ \E p \in A : p.surface = s
  BY DEF Used
<1>3. QED
  BY <1>1, <1>2, GivenMore

(* Fewer pictures in the DPB and in the lists fit as well.                 *)
LEMMA FitsFewer ==
    ASSUME TypeOK, IsFiniteSet(dpb \cup lists), Fits,
           dpb' \subseteq dpb, dpb' \cup lists' \subseteq dpb \cup lists,
           dpbSize' = dpbSize,
           phase' \in {"submitted", "decoded"} =>
              phase \in {"submitted", "decoded"}
    PROVE  Fits'
<1>1. IsFiniteSet(dpb)
  BY FS_Subset
<1>2. /\ IsFiniteSet(dpb')
      /\ Cardinality(dpb') <= Cardinality(dpb)
      /\ IsFiniteSet(dpb' \cup lists')
      /\ Cardinality(dpb' \cup lists') <= Cardinality(dpb \cup lists)
  BY <1>1, FS_Subset
<1>3. /\ Cardinality(dpb') \in Nat /\ Cardinality(dpb) \in Nat
      /\ Cardinality(dpb' \cup lists') \in Nat
      /\ Cardinality(dpb \cup lists) \in Nat
  BY <1>1, <1>2, FS_CardinalityType
<1>4. dpbSize \in Nat
  BY Sizes
<1>5. QED
  BY <1>2, <1>3, <1>4 DEF Fits

(* With the DPB within its size Take finds a surface, if there are any.    *)
LEMMA FindsOne ==
    ASSUME PoolSuffices, TypeOK, IsFiniteSet(Alive), RoomInv,
           dpbSize > 0, current = {}, \A s \in Surface : free[s] = 0
    PROVE  surfaces = 0
<1>1. dpbSize \in Nat /\ dpbSize \in DpbSizes /\ surfaces \in Nat
      /\ dpbSize + 2 <= MaxSurfaces /\ MaxSurfaces \in Nat
  <2>1. dpbSize \in Nat /\ surfaces \in Nat /\ MaxSurfaces \in Nat
    BY Sizes
  <2>2. dpbSize \in DpbSizes
    BY <2>1, Sizes
  <2>3. QED
    BY <2>1, <2>2 DEF PoolSuffices
<1>2. Count(dpbSize) = dpbSize + 2
  BY <1>1 DEF Count
<1> SUFFICES ASSUME surfaces # 0 PROVE FALSE
  OBVIOUS
<1>3. surfaces = dpbSize + 2
  BY <1>2 DEF RoomInv
<1> DEFINE S == 0 .. surfaces - 1
<1>4. \A s \in S : s \in Surface /\ free[s] = 0
  BY Sizes
<1>5. ASSUME NEW P, Used(surfaces, free, P)
      PROVE  \A s \in S : \E p \in P : p.surface = s
  BY <1>4, <1>5 DEF Used
<1>6. IsFiniteSet(S) /\ Cardinality(S) = surfaces
  <2>1. 0 \in Int /\ surfaces - 1 \in Int
    BY <1>1
  <2>2. /\ IsFiniteSet(S)
        /\ Cardinality(S) = IF 0 > surfaces - 1 THEN 0
                            ELSE (surfaces - 1) - 0 + 1
    BY <2>1, FS_Interval
  <2> HIDE DEF S
  <2>3. QED
    BY <1>1, <2>2
<1>7. CASE Unused
  <2>1. 0 \in S
    BY <1>1
  <2>2. QED
    BY <1>5, <1>7, <2>1 DEF Unused
<1>8. CASE Fits /\ Used(surfaces, free, Alive)
  <2>1. \A s \in S : \E p \in Alive : p.surface = s
    BY <1>5, <1>8
  <2> DEFINE f == [s \in S |-> CHOOSE p \in Alive : p.surface = s]
  <2>2. \A s \in S : f[s] \in Alive /\ f[s].surface = s
    BY <2>1
  <2>3. f \in [S -> Alive]
    BY <2>2
  <2>4. \A x, y \in S : x # y => f[x] # f[y]
    BY <2>2
  <2>5. Alive = dpb \cup lists
    BY DEF Alive
  <2>6. Cardinality(Alive) \in Nat /\ Cardinality(Alive) <= dpbSize + 1
    BY <1>8, <2>5, FS_CardinalityType DEF Fits
  <2> HIDE DEF f, S
  <2>7. Cardinality(Alive) < Cardinality(S)
    BY <1>1, <1>3, <1>6, <2>6
  <2>8. QED
    BY <1>6, <2>3, <2>4, <2>7, FS_PigeonHole
<1>9. QED
  BY <1>1, <1>7, <1>8 DEF RoomInv

(* A step that leaves pictures, pool and sizes alone keeps the room.       *)
LEMMA RoomKept ==
    ASSUME RoomInv,
           UNCHANGED <<surfaces, dpbSize, free, current, dpb, lists>>,
           phase' \in {"submitted", "decoded"} =>
              phase \in {"submitted", "decoded"},
           phase' = "ran out" => surfaces = 0
    PROVE  RoomInv'
BY DEF RoomInv, Unused, Fits, Used, Alive, NeverRunsOut

(* Pictures are dropped: what they used is in the pool.                    *)
LEMMA RoomGiven ==
    ASSUME TypeOK, IsFiniteSet(Alive), RoomInv,
           NEW P \in SUBSET Alive, free' = Given(P),
           UNCHANGED <<surfaces, dpbSize>>,
           current' \subseteq current, current \ P \subseteq current',
           dpb' \subseteq dpb, dpb' \cup lists' \subseteq dpb \cup lists,
           Alive \ P \subseteq Alive',
           phase' \in {"submitted", "decoded"} =>
              phase \in {"submitted", "decoded"},
           phase' # "ran out"
    PROVE  RoomInv'
<1>1. IsFiniteSet(P) /\ IsFiniteSet(dpb \cup lists)
  BY FS_Subset DEF Alive
<1>2. ASSUME Unused PROVE Unused'
  <2>1. Used(surfaces, Given(P), current')
    BY <1>1, <1>2, UsedGiven DEF Unused
  <2>2. QED
    BY <1>2, <2>1 DEF Unused, Used
<1>3. ASSUME Fits, Used(surfaces, free, Alive)
      PROVE  Fits' /\ Used(surfaces', free', Alive')
  <2>1. Used(surfaces, Given(P), Alive')
    BY <1>1, <1>3, UsedGiven
  <2>2. Fits'
    BY <1>1, <1>3, FitsFewer
  <2>3. QED
    BY <2>1, <2>2
<1>4. QED
  BY <1>2, <1>3 DEF RoomInv, NeverRunsOut, Used

(* Every step keeps the room, whatever outlives its configuration.         *)
LEMMA NextRoom ==
    ASSUME PoolSuffices, TypeOK, IsFiniteSet(Alive), RoomInv, Next
    PROVE  RoomInv'
<1>1. CASE Initialize
  BY <1>1 DEF Initialize, RoomInv, NeverRunsOut
<1>2. CASE Decode \/ SubmitDecode \/ BufferDone \/ Flush
  BY <1>2, RoomKept DEF Decode, SubmitDecode, BufferDone, Flush
<1>3. CASE DecodeFails
  BY <1>3, RoomKept DEF DecodeFails
<1>4. CASE \E p \in late : LateWrite(p)
  BY <1>4, RoomKept DEF LateWrite, RoomInv, NeverRunsOut
<1>5. CASE \E p \in dpb \cup Decoded : Output(p)
  BY <1>5, RoomKept DEF Output
<1>6. CASE RunOut
  <2>1. surfaces = 0
    BY <1>6, FindsOne DEF RunOut
  <2>2. QED
    BY <1>6, <2>1, RoomKept DEF RunOut
<1>7. CASE ConfigChange
  <2>1. PICK n \in DpbSizes :
          dpbSize' = n /\ surfaces' = Count(n) /\ free' = PoolReset(Count(n))
    BY <1>7 DEF ConfigChange
  <2>2. dpb' = {} /\ current' = {} /\ phase' = "decoding"
    BY <1>7 DEF ConfigChange
  <2>3. Used(surfaces', free', {})
    <3>1. n \in Nat /\ Count(n) \in 0 .. MaxSurfaces /\ MaxSurfaces \in Nat
      BY DecoderAssumption, CountBound
    <3>2. ASSUME NEW s \in 0 .. Count(n) - 1
          PROVE  s \in 0 .. MaxSurfaces - 1 /\ s < Count(n)
      BY <3>1
    <3>3. ASSUME NEW s \in 0 .. Count(n) - 1
          PROVE  PoolReset(Count(n))[s] = 1
      BY <3>2 DEF PoolReset, Surface
    <3>4. QED
      BY <2>1, <3>3 DEF Used
  <2>4. QED
    BY <2>1, <2>2, <2>3 DEF RoomInv, Unused, NeverRunsOut
<1>8. CASE ConfigFails
  <2>1. /\ surfaces' = 0 /\ dpb' = {} /\ current' = {}
        /\ phase' = "failed"
    BY <1>8 DEF ConfigFails
  <2>2. Used(surfaces', free', current')
    BY <2>1 DEF Used
  <2>3. QED
    BY <2>1, <2>2 DEF RoomInv, Unused, NeverRunsOut
<1>9. CASE CreatePicture
  <2>1. PICK s \in Surface :
          /\ free' = [free EXCEPT ![s] = @ - 1]
          /\ current' = {Picture(fed, s)}
    BY <1>9 DEF CreatePicture
  <2>2. /\ current = {} /\ UNCHANGED <<phase, surfaces, dpbSize, dpb, lists>>
        /\ phase = "decoding"
    BY <1>9 DEF CreatePicture
  <2>3. ASSUME NEW A, NEW B, A \cup current' \subseteq B,
               Used(surfaces, free, A)
        PROVE  Used(surfaces', free', B)
    <3> SUFFICES ASSUME NEW t \in 0 .. surfaces - 1
                 PROVE  free'[t] > 0 \/ \E p \in B : p.surface = t
      BY <2>2 DEF Used
    <3>1. CASE t = s
      <4>1. Picture(fed, s).surface = s
        BY DEF Picture
      <4>2. QED
        BY <2>1, <2>3, <3>1, <4>1
    <3>2. CASE t # s
      <4>1. t \in Surface
        BY Sizes
      <4>2. free'[t] = free[t]
        BY <2>1, <3>2, <4>1 DEF TypeOK
      <4>3. QED
        BY <2>3, <4>2 DEF Used
    <3>3. QED
      BY <3>1, <3>2
  <2>4. Unused => Unused'
    BY <2>2, <2>3 DEF Unused
  <2>5. Fits => Fits'
    BY <2>2 DEF Fits
  <2>6. Alive \cup current' \subseteq Alive'
    BY <2>2 DEF Alive
  <2>7. Used(surfaces, free, Alive) => Used(surfaces', free', Alive')
    BY <2>3, <2>6
  <2>8. QED
    BY <2>1, <2>2, <2>4, <2>5, <2>7 DEF RoomInv, NeverRunsOut
<1>10. CASE SubmitFrameMetadata
  <2>1. PICK refs \in SUBSET dpb :
          lists' = refs /\ free' = Given(lists \ (refs \cup dpb))
    BY <1>10 DEF SubmitFrameMetadata
  <2>2. /\ UNCHANGED <<surfaces, dpbSize, current, dpb>>
        /\ phase = "decoding" /\ phase' = "submitted"
    BY <1>10 DEF SubmitFrameMetadata
  <2> DEFINE P == lists \ (refs \cup dpb)
  <2>3. IsFiniteSet(P) /\ IsFiniteSet(dpb)
    BY FS_Subset DEF Alive
  <2>4. Alive \ P \subseteq Alive' /\ current \ P \subseteq Alive'
    BY <2>1, <2>2 DEF Alive
  <2>5. Unused \/ Used(surfaces, free, Alive)
           => Used(surfaces', free', Alive')
    BY <2>1, <2>2, <2>3, <2>4, UsedGiven DEF Unused
  <2>6. ASSUME dpbSize > 0, Unused \/ Fits PROVE Fits'
    <3>1. dpb' \cup lists' = dpb /\ dpb' = dpb /\ dpbSize' = dpbSize
      BY <2>1, <2>2
    <3>2. Cardinality(dpb) \in Nat /\ dpbSize \in Nat
      BY <2>3, FS_CardinalityType, Sizes
    <3>3. Cardinality(dpb) <= dpbSize
      <4>1. CASE Fits
        BY <4>1 DEF Fits
      <4>2. CASE Unused
        <5>1. Cardinality(dpb) = 0
          BY <4>2, FS_EmptySet DEF Unused
        <5>2. QED
          BY <3>2, <5>1
      <4>3. QED
        BY <2>6, <4>1, <4>2
    <3>4. QED
      BY <3>1, <3>2, <3>3 DEF Fits
  <2>7. QED
    BY <2>2, <2>5, <2>6 DEF RoomInv, NeverRunsOut
<1>11. CASE StorePicture
  <2>1. /\ phase = "decoded" /\ phase' = "decoding" /\ current' = {}
        /\ UNCHANGED <<surfaces, dpbSize, lists>>
    BY <1>11 DEF StorePicture
  <2>2. ASSUME Cardinality(dpb) < dpbSize, dpb' = dpb \cup current,
               free' = free
        PROVE  RoomInv'
    <3>1. Alive' = Alive
      BY <2>1, <2>2 DEF Alive
    <3>2. IsFiniteSet(dpb) /\ IsFiniteSet(dpb \cup lists)
      BY FS_Subset DEF Alive
    <3>3. ASSUME Fits, dpbSize > 0 PROVE Fits'
      <4>1. dpbSize \in Nat /\ Cardinality(dpb) \in Nat
            /\ Cardinality(dpb \cup lists) \in Nat
            /\ Cardinality(dpb \cup lists) <= dpbSize
        BY <2>1, <3>2, <3>3, FS_CardinalityType, Sizes DEF Fits
      <4>2. CASE current = {}
        BY <2>1, <2>2, <4>1, <4>2 DEF Fits
      <4>3. CASE current # {}
        <5>0. PICK c \in current : TRUE
          BY <4>3
        <5>1. current = {c}
          BY <5>0 DEF RoomInv
        <5>2. dpb' = dpb \cup {c} /\ dpb' \cup lists' = dpb \cup lists \cup {c}
          BY <2>1, <2>2, <5>1
        <5>3. Cardinality(dpb') <= Cardinality(dpb) + 1
          BY <3>2, <4>1, <5>2, AtMostOneMore
        <5>4. Cardinality(dpb' \cup lists') <= Cardinality(dpb \cup lists) + 1
          BY <3>2, <4>1, <5>2, AtMostOneMore
        <5>5. /\ Cardinality(dpb') \in Nat
              /\ Cardinality(dpb' \cup lists') \in Nat
          BY <3>2, <5>2, FS_AddElement, FS_CardinalityType
        <5>6. QED
          BY <2>1, <2>2, <4>1, <5>3, <5>4, <5>5 DEF Fits
      <4>4. QED
        BY <4>2, <4>3
    <3>4. QED
      BY <2>1, <2>2, <3>1, <3>3 DEF RoomInv, Unused, NeverRunsOut
  <2>3. ASSUME dpb' = dpb, free' = Given(current) PROVE RoomInv'
    BY <2>1, <2>3, RoomGiven DEF Alive
  <2>4. QED
    BY <1>11, <2>2, <2>3 DEF StorePicture
<1>12. CASE \E p \in dpb : LeaveDpb(p)
  <2>1. PICK p \in dpb : LeaveDpb(p)
    BY <1>12
  <2>2. /\ UNCHANGED <<phase, surfaces, dpbSize, current, lists>>
        /\ dpb' = dpb \ {p} /\ free' = Given({p} \ lists)
        /\ phase # "ran out"
    BY <2>1 DEF LeaveDpb
  <2> DEFINE P == {p} \ lists
  <2>3. P \in SUBSET Alive /\ Alive \ P \subseteq Alive' \cup current
    BY <2>2 DEF Alive
  <2>4. QED
    BY <2>2, <2>3, RoomGiven DEF Alive
<1>13. CASE FlushDone
  BY <1>13, RoomGiven DEF FlushDone, Alive
<1>14. CASE Reset
  BY <1>14, RoomGiven DEF Reset, Alive
<1>15. QED
  BY <1>1, <1>2, <1>3, <1>4, <1>5, <1>6, <1>7, <1>8, <1>9, <1>10, <1>11,
     <1>12, <1>13, <1>14 DEF Next

(* kRanOutOfSurfaces ("running out means the pool is smaller than the      *)
(* DPB") is never met with a pool that has any surface, for any DPB sizes  *)
(* under PoolSuffices, whatever fails and whatever the reference lists     *)
(* hold on to.                                                             *)
THEOREM NeverOut == ASSUME PoolSuffices PROVE Spec => []NeverRunsOut
<1>1. Init => RoomInv
  BY DEF Init, RoomInv, NeverRunsOut
<1>2. RoomInv /\ IInv /\ [Next]_vars => RoomInv'
  <2> SUFFICES ASSUME RoomInv, IInv, [Next]_vars PROVE RoomInv'
    OBVIOUS
  <2>1. CASE Next
    BY <2>1, NextRoom DEF IInv
  <2>2. CASE UNCHANGED vars
    BY <2>2, RoomKept DEF vars, RoomInv, NeverRunsOut
  <2>3. QED
    BY <2>1, <2>2
<1>3. RoomInv => NeverRunsOut
  BY DEF RoomInv
<1>4. QED
  BY <1>1, <1>2, <1>3, Invariant, PTL DEF Spec

=============================================================================

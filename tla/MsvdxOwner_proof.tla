------------------------- MODULE MsvdxOwner_proof -------------------------
(***************************************************************************)
(* Proofs about MsvdxOwner, for any number of teams and decoders.          *)
(***************************************************************************)
EXTENDS MsvdxOwner, FiniteSetTheorems, TLAPS

(* Where a team is in its calls says which of its flags are set: the claim *)
(* is there whenever the block may be touched, and gone whenever it is not *)
(* the team's.                                                             *)
Position(t) ==
    /\ pc[t] \in {"map", "reset", "load"} => port[t]
    /\ hwUp[t] => port[t]
    /\ pc[t] = "release" => ~hwUp[t]
    /\ pc[t] \in {"run", "dead"} => port[t] = isOpen[t]
    /\ pc[t] \in {"find", "create", "dead"} => ~port[t]
    /\ pc[t] \in {"find", "create", "map", "reset", "load", "dead"}
         => ~isOpen[t]
    /\ pc[t] = "create" => t \in looked

(* The flags of the two files move together, and the decoder that has the  *)
(* hardware is the one whose call opened it.                               *)
Flags(t) ==
    /\ isOpen[t] => port[t]
    /\ inUse[t] = isOpen[t]
    /\ hardwareOpen[t] = IF isOpen[t] THEN {caller[t]} ELSE {}

(* The inductive invariant of MsvdxOwner.                                  *)
IInv ==
    /\ TypeOK
    /\ \A t \in Team : Position(t)
    /\ \A t \in Team : Flags(t)
    /\ OwnsUnlessRaced

USE DEF Goto, Where, Fresh, team, registers, history

-----------------------------------------------------------------------------
(* IInv holds when no team has made a call.                                *)
LEMMA InitIInv == Init => IInv
<1> SUFFICES ASSUME Init PROVE IInv
  OBVIOUS
<1>1. TypeOK
  BY DEF Init, TypeOK
<1>2. ASSUME NEW t \in Team PROVE Position(t) /\ Flags(t)
  <2>1. pc[t] = "run" /\ hwUp[t] = FALSE /\ port[t] = FALSE
    BY DEF Init
  <2>2. isOpen[t] = FALSE /\ inUse[t] = FALSE /\ hardwareOpen[t] = {}
    BY DEF Init
  <2>3. QED
    BY <2>1, <2>2 DEF Position, Flags
<1>3. OwnsUnlessRaced
  BY DEF Init, OwnsUnlessRaced
<1>4. QED
  BY <1>1, <1>2, <1>3 DEF IInv

(* Every step keeps the state well typed, whatever the other teams do.     *)
LEMMA NextTypeOK == TypeOK /\ [Next]_vars => TypeOK'
<1> SUFFICES ASSUME TypeOK, [Next]_vars PROVE TypeOK'
  OBVIOUS
<1> USE DEF TypeOK
<1>1. CASE UNCHANGED vars
  BY <1>1 DEF vars
<1>2. ASSUME NEW t \in Team, Call(t) PROVE TypeOK'
  <2>1. CASE FindPort(t)      BY <2>1 DEF FindPort
  <2>2. CASE CreatePort(t)    BY <2>2 DEF CreatePort
  <2>3. CASE MapRegisters(t)  BY <2>3 DEF MapRegisters
  <2>4. CASE ResetBlock(t)    BY <2>4 DEF ResetBlock
  <2>5. CASE LoadFirmware(t)
    <3>1. /\ pc' \in [Team -> Where]
          /\ hw' \in [of : Team \cup {NoTeam}, state : {"off", "ready"}]
          /\ \A u \in Team : pc'[u] = "stop" => hwUp'[u]
          /\ UNCHANGED <<caller, mapped, hwUp, port, looked, raced>>
      BY <2>5 DEF LoadFirmware
    <3>2. caller[t] \in Decoder
      OBVIOUS
    <3>3. inUse' \in [Team -> BOOLEAN] /\ isOpen' \in [Team -> BOOLEAN]
      BY <2>5 DEF LoadFirmware
    <3>4. hardwareOpen[t] \cup {caller[t]} \in SUBSET Decoder
      BY <3>2
    <3>5. hardwareOpen' \in [Team -> SUBSET Decoder]
      BY <2>5, <3>4 DEF LoadFirmware
    <3>6. QED
      BY <3>1, <3>3, <3>5
  <2>6. CASE Close(t)         BY <2>6 DEF Close
  <2>7. CASE StopBlock(t)     BY <2>7 DEF StopBlock
  <2>8. CASE ReleaseOwner(t)
    <3>1. /\ pc' \in [Team -> Where]
          /\ port' \in [Team -> BOOLEAN]
          /\ \A u \in Team : pc'[u] = "stop" => hwUp'[u]
          /\ UNCHANGED <<caller, mapped, hwUp, hw, looked, raced>>
      BY <2>8 DEF ReleaseOwner
    <3>2. inUse' \in [Team -> BOOLEAN] /\ isOpen' \in [Team -> BOOLEAN]
      BY <2>8 DEF ReleaseOwner
    <3>3. hardwareOpen[t] \ {caller[t]} \in SUBSET Decoder
      OBVIOUS
    <3>4. hardwareOpen' \in [Team -> SUBSET Decoder]
      BY <2>8, <3>3 DEF ReleaseOwner
    <3>5. QED
      BY <3>1, <3>2, <3>4
  <2>9. QED
    BY <1>2, <2>1, <2>2, <2>3, <2>4, <2>5, <2>6, <2>7, <2>8 DEF Call
<1>3. ASSUME NEW t \in Team, Die(t) PROVE TypeOK'
  BY <1>3 DEF Die
<1>4. ASSUME NEW t \in Team, Restart(t) PROVE TypeOK'
  BY <1>4 DEF Restart
<1>5. ASSUME NEW t \in Team, NEW d \in Decoder, Initialize(t, d) PROVE TypeOK'
  BY <1>5 DEF Initialize
<1>6. ASSUME NEW t \in Team, NEW d \in Decoder, Shutdown(t, d) PROVE TypeOK'
  BY <1>6 DEF Shutdown
<1>7. QED
  BY <1>1, <1>2, <1>3, <1>4, <1>5, <1>6 DEF Next

(* What one team's step does to the flags of another: nothing.             *)
Others(t) == \A u \in Team \ {t} :
    /\ pc'[u] = pc[u] /\ caller'[u] = caller[u]
    /\ hardwareOpen'[u] = hardwareOpen[u] /\ inUse'[u] = inUse[u]
    /\ isOpen'[u] = isOpen[u] /\ hwUp'[u] = hwUp[u] /\ port'[u] = port[u]
    /\ u \in looked => u \in looked'

(* A step of one team                                                      *)
Step(t) ==
    \/ Call(t) \/ Die(t) \/ Restart(t)
    \/ \E d \in Decoder : Initialize(t, d) \/ Shutdown(t, d)

(* A team's step leaves the other teams' flags alone.                      *)
LEMMA StepOthers ==
    ASSUME TypeOK, NEW t \in Team, Step(t) PROVE Others(t)
<1> USE DEF TypeOK, Others
<1>1. CASE FindPort(t)      BY <1>1 DEF FindPort
<1>2. CASE CreatePort(t)    BY <1>2 DEF CreatePort
<1>3. CASE MapRegisters(t)  BY <1>3 DEF MapRegisters
<1>4. CASE ResetBlock(t)    BY <1>4 DEF ResetBlock
<1>5. CASE LoadFirmware(t)  BY <1>5 DEF LoadFirmware
<1>6. CASE Close(t)         BY <1>6 DEF Close
<1>7. CASE StopBlock(t)     BY <1>7 DEF StopBlock
<1>8. CASE ReleaseOwner(t)  BY <1>8 DEF ReleaseOwner
<1>9. CASE Die(t)           BY <1>9 DEF Die
<1>10. CASE Restart(t)      BY <1>10 DEF Restart
<1>11. CASE \E d \in Decoder : Initialize(t, d)
  BY <1>11 DEF Initialize
<1>12. CASE \E d \in Decoder : Shutdown(t, d)
  BY <1>12 DEF Shutdown
<1>13. QED
  BY <1>1, <1>2, <1>3, <1>4, <1>5, <1>6, <1>7, <1>8, <1>9, <1>10, <1>11,
     <1>12 DEF Step, Call

-----------------------------------------------------------------------------
(* A team's own step keeps its position and its flags in line.             *)
LEMMA StepOwn ==
    ASSUME TypeOK, NEW t \in Team, Position(t), Flags(t), Step(t)
    PROVE  Position(t)' /\ Flags(t)'
<1> USE DEF TypeOK, Position, Flags
<1>1. CASE FindPort(t)      BY <1>1 DEF FindPort
<1>2. CASE CreatePort(t)    BY <1>2 DEF CreatePort
<1>3. CASE MapRegisters(t)  BY <1>3 DEF MapRegisters
<1>4. CASE ResetBlock(t)    BY <1>4 DEF ResetBlock
<1>5. CASE LoadFirmware(t)
  <2>1. pc[t] = "load" /\ ~isOpen[t] /\ hardwareOpen[t] = {}
    BY <1>5 DEF LoadFirmware
  <2>2. hardwareOpen[t] \cup {caller[t]} = {caller[t]}
    BY <2>1
  <2>3. Flags(t)'
    BY <1>5, <2>1, <2>2 DEF LoadFirmware
  <2>4. Position(t)'
    BY <1>5, <2>1 DEF LoadFirmware
  <2>5. QED
    BY <2>3, <2>4
<1>6. CASE Close(t)         BY <1>6 DEF Close
<1>7. CASE StopBlock(t)     BY <1>7 DEF StopBlock
<1>8. CASE ReleaseOwner(t)
  <2>1. {caller[t]} \ {caller[t]} = {}
    OBVIOUS
  <2>2. /\ isOpen'[t] = FALSE
        /\ inUse'[t] = FALSE
        /\ port'[t] = FALSE
        /\ pc'[t] = "run"
        /\ hwUp'[t] = FALSE
    BY <1>8 DEF ReleaseOwner
  <2>3. hardwareOpen'[t] = {}
    BY <1>8, <2>1 DEF ReleaseOwner
  <2>4. QED
    BY <2>2, <2>3
<1>9. CASE Die(t)           BY <1>9 DEF Die
<1>10. CASE Restart(t)      BY <1>10 DEF Restart
<1>11. CASE \E d \in Decoder : Initialize(t, d)
  BY <1>11 DEF Initialize
<1>12. CASE \E d \in Decoder : Shutdown(t, d)
  BY <1>12 DEF Shutdown
<1>13. QED
  BY <1>1, <1>2, <1>3, <1>4, <1>5, <1>6, <1>7, <1>8, <1>9, <1>10, <1>11,
     <1>12 DEF Step, Call

(* The block is written, and a port created, only as the claims allow.     *)
LEMMA StepShared ==
    ASSUME TypeOK, NEW t \in Team, Position(t), Flags(t), Step(t)
    PROVE  /\ hw' # hw => port[t] /\ hw'.of = t
           /\ raced => raced'
           /\ port'[t] /\ ~port[t] /\ Claimed => raced'
           /\ isOpen'[t] /\ pc'[t] = "run"
                => \/ hw' = [of |-> t, state |-> "ready"]
                   \/ isOpen[t] /\ pc[t] = "run" /\ hw' = hw
<1> USE DEF TypeOK, Position, Flags
<1>1. CASE FindPort(t)      BY <1>1 DEF FindPort
<1>2. CASE CreatePort(t)    BY <1>2 DEF CreatePort
<1>3. CASE MapRegisters(t)  BY <1>3 DEF MapRegisters
<1>4. CASE ResetBlock(t)    BY <1>4 DEF ResetBlock
<1>5. CASE LoadFirmware(t)  BY <1>5 DEF LoadFirmware
<1>6. CASE Close(t)         BY <1>6 DEF Close
<1>7. CASE StopBlock(t)     BY <1>7 DEF StopBlock
<1>8. CASE ReleaseOwner(t)  BY <1>8 DEF ReleaseOwner
<1>9. CASE Die(t)           BY <1>9 DEF Die
<1>10. CASE Restart(t)      BY <1>10 DEF Restart
<1>11. CASE \E d \in Decoder : Initialize(t, d)
  BY <1>11 DEF Initialize
<1>12. CASE \E d \in Decoder : Shutdown(t, d)
  BY <1>12 DEF Shutdown
<1>13. QED
  BY <1>1, <1>2, <1>3, <1>4, <1>5, <1>6, <1>7, <1>8, <1>9, <1>10, <1>11,
     <1>12 DEF Step, Call

-----------------------------------------------------------------------------
(* The steps of Next, one team at a time.                                  *)
LEMMA NextIsStep == Next => \E t \in Team : Step(t)
BY DEF Next, Step

(* The exclusion survives a step: a port is created beside another only by *)
(* a team that raced, and only the one claimant writes the block.          *)
LEMMA StepExclusive ==
    ASSUME IInv, NEW t \in Team, Step(t) PROVE OwnsUnlessRaced'
<1> SUFFICES ASSUME ~raced' PROVE
      /\ \A u, v \in Team : port'[u] /\ port'[v] => u = v
      /\ \A u \in Team :
            isOpen'[u] /\ pc'[u] = "run" => hw' = [of |-> u, state |-> "ready"]
  BY DEF OwnsUnlessRaced
<1>1. TypeOK /\ \A u \in Team : Position(u) /\ Flags(u)
  BY DEF IInv
<1>2. /\ hw' # hw => port[t] /\ hw'.of = t
      /\ ~raced
      /\ ~(port'[t] /\ ~port[t] /\ Claimed)
      /\ isOpen'[t] /\ pc'[t] = "run"
            => \/ hw' = [of |-> t, state |-> "ready"]
               \/ isOpen[t] /\ pc[t] = "run" /\ hw' = hw
  BY <1>1, StepShared
<1>3. Others(t)
  BY <1>1, StepOthers
<1>4. /\ \A u, v \in Team : port[u] /\ port[v] => u = v
      /\ \A u \in Team :
            isOpen[u] /\ pc[u] = "run" => hw = [of |-> u, state |-> "ready"]
  BY <1>2 DEF IInv, OwnsUnlessRaced
<1>5. ASSUME NEW u \in Team, NEW v \in Team, port'[u], port'[v] PROVE u = v
  <2>1. CASE u # t /\ v # t
    BY <1>3, <1>4, <1>5, <2>1 DEF Others
  <2>2. ASSUME NEW w \in Team, w # t, port'[w], port'[t] PROVE FALSE
    <3>1. port[w]
      BY <1>3, <2>2 DEF Others
    <3>2. Claimed /\ ~port[t]
      BY <1>4, <2>2, <3>1 DEF Claimed
    <3>3. QED
      BY <1>2, <2>2, <3>2
  <2>3. QED
    BY <1>5, <2>1, <2>2
<1>6. ASSUME NEW u \in Team, isOpen'[u], pc'[u] = "run"
      PROVE  hw' = [of |-> u, state |-> "ready"]
  <2>1. CASE u = t
    BY <1>2, <1>4, <1>6, <2>1
  <2>2. CASE u # t
    <3>1. isOpen[u] /\ pc[u] = "run" /\ port[u]
      BY <1>1, <1>3, <1>6, <2>2 DEF Others, Flags
    <3>2. hw' = hw
      BY <1>2, <1>4, <2>2, <3>1
    <3>3. QED
      BY <1>4, <3>1, <3>2
  <2>3. QED
    BY <2>1, <2>2
<1>7. QED
  BY <1>5, <1>6

(* IInv is inductive.                                                      *)
LEMMA NextIInv == IInv /\ [Next]_vars => IInv'
<1> SUFFICES ASSUME IInv, [Next]_vars PROVE IInv'
  OBVIOUS
<1>1. TypeOK'
  BY NextTypeOK DEF IInv
<1>2. CASE UNCHANGED vars
  BY <1>1, <1>2 DEF vars, IInv, Position, Flags, OwnsUnlessRaced
<1>3. ASSUME NEW t \in Team, Step(t) PROVE IInv'
  <2>1. Position(t)' /\ Flags(t)'
    BY <1>3, StepOwn DEF IInv
  <2>2. ASSUME NEW u \in Team, u # t PROVE Position(u)' /\ Flags(u)'
    <3>1. Others(t) /\ Position(u) /\ Flags(u)
      BY <1>3, StepOthers DEF IInv
    <3>2. QED
      BY <2>2, <3>1 DEF Others, Position, Flags
  <2>3. OwnsUnlessRaced'
    BY <1>3, StepExclusive
  <2>4. QED
    BY <1>1, <2>1, <2>2, <2>3 DEF IInv
<1>4. QED
  BY <1>2, <1>3, NextIsStep

-----------------------------------------------------------------------------
(* IInv holds throughout.                                                  *)
THEOREM Invariant == Spec => []IInv
BY InitIInv, NextIInv, PTL DEF Spec

(* The statics of msvdx.c, msvdx_decode.c and the decoder stay in their    *)
(* ranges, and msvdx_close stops only a block that is mapped.              *)
THEOREM TypeCorrect == Spec => []TypeOK
BY Invariant, PTL DEF IInv

(* The owner port excludes, unless find_port and create_port interleave.   *)
THEOREM Exclusion == Spec => []OwnsUnlessRaced
BY Invariant, PTL DEF IInv

(* A team's three flags agree between calls, so one decoder of a team at a *)
(* time has the hardware, and the port is held exactly while it is open.   *)
THEOREM Agreement == Spec => []FlagsAgree
<1>1. IInv => FlagsAgree
  <2> SUFFICES ASSUME IInv, NEW t \in Team
               PROVE  /\ Cardinality(hardwareOpen[t]) <= 1
                      /\ pc[t] = "run" =>
                            /\ inUse[t] = isOpen[t]
                            /\ isOpen[t] = (hardwareOpen[t] # {})
                            /\ port[t] = isOpen[t]
    BY DEF FlagsAgree
  <2>1. TypeOK /\ Position(t) /\ Flags(t)
    BY DEF IInv
  <2>2. hardwareOpen[t] = {} \/ hardwareOpen[t] = {caller[t]}
    BY <2>1 DEF Flags
  <2>3. Cardinality({}) = 0 /\ Cardinality({caller[t]}) = 1
    BY FS_EmptySet, FS_Singleton
  <2>4. Cardinality(hardwareOpen[t]) <= 1
    BY <2>2, <2>3
  <2>5. {caller[t]} # {}
    OBVIOUS
  <2>6. isOpen[t] = (hardwareOpen[t] # {})
    BY <2>1, <2>5 DEF TypeOK, Flags
  <2>7. QED
    BY <2>1, <2>4, <2>6 DEF Position, Flags
<1>2. QED
  BY <1>1, Invariant, PTL

(* Only a team that holds a port writes the block: a refused open, and the *)
(* msvdx_close after it, leave another team's decode alone.                *)
THEOREM OnlyClaimants == Spec => OnlyClaimantsTouch
<1>1. IInv /\ [Next]_vars
        => [hw' # hw => \E t \in Team : port[t] /\ hw'.of = t]_vars
  <2> SUFFICES ASSUME IInv, Next, hw' # hw
               PROVE  \E t \in Team : port[t] /\ hw'.of = t
    BY DEF vars
  <2>1. PICK t \in Team : Step(t)
    BY NextIsStep
  <2>2. QED
    BY <2>1, StepShared DEF IInv
<1>2. QED
  BY <1>1, Invariant, PTL DEF Spec, OnlyClaimantsTouch

=============================================================================

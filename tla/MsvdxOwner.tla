---------------------------- MODULE MsvdxOwner ----------------------------
(***************************************************************************)
(* Who owns the MSVDX.  Two claims stand in front of the hardware:         *)
(*   - inside a team, g_hardware_in_use (haiku_msvdx_video_decoder.cc) and *)
(*     sOpen (msvdx_decode.c) let one decoder at a time open it;           *)
(*   - between teams, the port named "msvdx owner" (msvdx.c).              *)
(* A team's decoders live on its one media thread, so a team makes one     *)
(* call at a time, and the teams' calls interleave at every kernel call    *)
(* and every access to the registers they share.  A team may die anywhere; *)
(* the kernel then deletes its port, and the hardware stays as it was.     *)
(***************************************************************************)
EXTENDS Naturals, FiniteSets

CONSTANTS
    Team,        \* the processes that may decode: renderers, R Television
    Decoder,     \* the HaikuMsvdxVideoDecoder objects of each team
    NoTeam       \* hw.of before the first msvdx_open

ASSUME OwnerAssumption == NoTeam \notin Team

VARIABLES
    pc,            \* pc[t]: "run" between calls, else where the call is
    caller,        \* caller[t]: the decoder whose call it is
    hardwareOpen,  \* hardwareOpen[t]: the decoders with hardware_open_ set
    inUse,         \* inUse[t]: g_hardware_in_use
    isOpen,        \* isOpen[t]: sOpen
    mapped,        \* mapped[t]: sRegsArea, kept until the team exits
    hwUp,          \* hwUp[t]: sHwUp
    port,          \* port[t]: sOwner names a port of this team's
    hw,            \* the block: who wrote it last, and what it is doing
    looked,        \* history: the teams whose find_port found nothing
    raced          \* history: one of them found the name taken after all

vars == <<pc, caller, hardwareOpen, inUse, isOpen, mapped, hwUp, port, hw,
          looked, raced>>

history == <<looked, raced>>
team == <<hardwareOpen, inUse, isOpen>>
registers == <<mapped, hwUp>>

Where == {"run", "find", "create", "map", "reset", "load",
          "close", "stop", "release", "dead"}

(* find_port(OWNER_PORT_NAME): any team's port of that name will do.       *)
Claimed == \E t \in Team : port[t]

Goto(t, where) == pc' = [pc EXCEPT ![t] = where]

Fresh(t) ==
    /\ hardwareOpen' = [hardwareOpen EXCEPT ![t] = {}]
    /\ inUse' = [inUse EXCEPT ![t] = FALSE]
    /\ isOpen' = [isOpen EXCEPT ![t] = FALSE]
    /\ mapped' = [mapped EXCEPT ![t] = FALSE]
    /\ hwUp' = [hwUp EXCEPT ![t] = FALSE]

Init ==
    /\ pc = [t \in Team |-> "run"]
    /\ caller \in [Team -> Decoder]
    /\ hardwareOpen = [t \in Team |-> {}]
    /\ inUse = [t \in Team |-> FALSE]
    /\ isOpen = [t \in Team |-> FALSE]
    /\ mapped = [t \in Team |-> FALSE]
    /\ hwUp = [t \in Team |-> FALSE]
    /\ port = [t \in Team |-> FALSE]
    /\ hw = [of |-> NoTeam, state |-> "off"]
    /\ looked = {}
    /\ raced = FALSE

-----------------------------------------------------------------------------
(* HaikuMsvdxVideoDecoder::Initialize of a decoder without the hardware.   *)
(* When the team already uses it the decoder falls back to FFmpeg, and     *)
(* nothing changes.                                                        *)
Initialize(t, d) ==
    /\ pc[t] = "run"
    /\ d \notin hardwareOpen[t]
    /\ ~inUse[t]
    /\ ~isOpen[t]
    /\ caller' = [caller EXCEPT ![t] = d]
    /\ Goto(t, "find")
    /\ UNCHANGED <<team, registers, port, hw, history>>

(* A slip: nobody looks.                                                   *)
FindPortSkipped(t) ==
    /\ pc[t] = "find"
    /\ Goto(t, "create")
    /\ UNCHANGED <<caller, team, registers, port, hw, history>>

(* msvdx_open: the port is looked for ...                                  *)
FindPort(t) ==
    /\ pc[t] = "find"
    /\ IF Claimed
       THEN Goto(t, "close") /\ looked' = looked
       ELSE Goto(t, "create") /\ looked' = looked \cup {t}
    /\ UNCHANGED <<caller, team, registers, port, hw, raced>>

(* ... and then created, whatever has happened in between: Haiku's ports   *)
(* do not need distinct names.                                             *)
CreatePort(t) ==
    /\ pc[t] = "create"
    /\ \/ /\ port' = [port EXCEPT ![t] = TRUE]
          /\ raced' = (raced \/ (Claimed /\ t \in looked))
          /\ Goto(t, "map")
       \/ /\ Goto(t, "close")
          /\ UNCHANGED <<port, raced>>
    /\ looked' = looked \ {t}
    /\ UNCHANGED <<caller, team, registers, hw>>

(* Map the registers, once per team; poke may be missing the first time.   *)
MapRegisters(t) ==
    /\ pc[t] = "map"
    /\ \/ /\ mapped' = [mapped EXCEPT ![t] = TRUE]
          /\ hwUp' = [hwUp EXCEPT ![t] = TRUE]
          /\ Goto(t, "reset")
       \/ /\ ~mapped[t]
          /\ Goto(t, "close")
          /\ UNCHANGED registers
    /\ UNCHANGED <<caller, team, port, hw, history>>

(* psb_msvdx_reset: the MTX stops and the whole block is reset; it may not *)
(* come back.                                                              *)
ResetBlock(t) ==
    /\ pc[t] = "reset"
    /\ hw' = [of |-> t, state |-> "off"]
    /\ \E where \in {"load", "close"} : Goto(t, where)
    /\ UNCHANGED <<caller, team, registers, port, history>>

(* The MMU, RENDEC and firmware of msvdx_open, then the bitstream buffer   *)
(* of msvdx_decode_open; any of them may fail, with the MTX started or not.*)
LoadFirmware(t) ==
    /\ pc[t] = "load"
    /\ \/ /\ hw' = [of |-> t, state |-> "ready"]
          /\ isOpen' = [isOpen EXCEPT ![t] = TRUE]
          /\ inUse' = [inUse EXCEPT ![t] = TRUE]
          /\ hardwareOpen' = [hardwareOpen EXCEPT ![t] = @ \cup {caller[t]}]
          /\ Goto(t, "run")
       \/ /\ \E s \in {"off", "ready"} : hw' = [of |-> t, state |-> s]
          /\ Goto(t, "close")
          /\ UNCHANGED team
    /\ UNCHANGED <<caller, registers, port, history>>

(* HaikuMsvdxVideoDecoder::Shutdown of the decoder that has the hardware;  *)
(* one that has not changes nothing.                                       *)
Shutdown(t, d) ==
    /\ pc[t] = "run"
    /\ d \in hardwareOpen[t]
    /\ caller' = [caller EXCEPT ![t] = d]
    /\ Goto(t, "close")
    /\ UNCHANGED <<team, registers, port, hw, history>>

(* msvdx_close without its guard: it would stop the block for any caller.  *)
CloseUnguarded(t) ==
    /\ pc[t] = "close"
    /\ Goto(t, "stop")
    /\ UNCHANGED <<caller, team, registers, port, hw, history>>

(* msvdx_close, after a failed open or from Shutdown: the block is only    *)
(* stopped by a team that got as far as mapping it.                        *)
Close(t) ==
    /\ pc[t] = "close"
    /\ Goto(t, IF hwUp[t] THEN "stop" ELSE "release")
    /\ UNCHANGED <<caller, team, registers, port, hw, history>>

StopBlock(t) ==
    /\ pc[t] = "stop"
    /\ hw' = [of |-> t, state |-> "off"]
    /\ hwUp' = [hwUp EXCEPT ![t] = FALSE]
    /\ Goto(t, "release")
    /\ UNCHANGED <<caller, team, mapped, port, history>>

(* An early return that forgets release_owner().                           *)
ReturnClaimed(t) ==
    /\ pc[t] = "release"
    /\ Goto(t, "run")
    /\ UNCHANGED <<caller, team, registers, port, hw, history>>

(* release_owner, and back in the caller: sOpen after a decode_close, then *)
(* hardware_open_ and g_hardware_in_use.                                   *)
ReleaseOwner(t) ==
    /\ pc[t] = "release"
    /\ port' = [port EXCEPT ![t] = FALSE]
    /\ IF isOpen[t]
       THEN /\ isOpen' = [isOpen EXCEPT ![t] = FALSE]
            /\ inUse' = [inUse EXCEPT ![t] = FALSE]
            /\ hardwareOpen' = [hardwareOpen EXCEPT ![t] = @ \ {caller[t]}]
       ELSE UNCHANGED team
    /\ Goto(t, "run")
    /\ UNCHANGED <<caller, registers, hw, history>>

(* The team dies: its port goes with it, the block keeps running.          *)
Die(t) ==
    /\ pc[t] # "dead"
    /\ Goto(t, "dead")
    /\ port' = [port EXCEPT ![t] = FALSE]
    /\ Fresh(t)
    /\ UNCHANGED <<caller, hw, history>>

(* Its successor starts with fresh statics.                                *)
Restart(t) ==
    /\ pc[t] = "dead"
    /\ Goto(t, "run")
    /\ UNCHANGED <<caller, team, registers, port, hw, history>>

-----------------------------------------------------------------------------
Call(t) ==
    \/ FindPort(t) \/ CreatePort(t) \/ MapRegisters(t) \/ ResetBlock(t)
    \/ LoadFirmware(t) \/ Close(t) \/ StopBlock(t) \/ ReleaseOwner(t)

Next == \E t \in Team :
    \/ Call(t)
    \/ Die(t)
    \/ Restart(t)
    \/ \E d \in Decoder : Initialize(t, d) \/ Shutdown(t, d)

Spec == Init /\ [][Next]_vars

(* A call that has been made runs on: the media thread is scheduled.       *)
FairSpec == Spec /\ \A t \in Team : WF_vars(Call(t))

-----------------------------------------------------------------------------
(* The state is what the statics and the registers can hold, and msvdx_close*)
(* stops the block only for a team that has it mapped.                     *)
TypeOK ==
    /\ pc \in [Team -> Where]
    /\ caller \in [Team -> Decoder]
    /\ hardwareOpen \in [Team -> SUBSET Decoder]
    /\ inUse \in [Team -> BOOLEAN]
    /\ isOpen \in [Team -> BOOLEAN]
    /\ mapped \in [Team -> BOOLEAN]
    /\ hwUp \in [Team -> BOOLEAN]
    /\ port \in [Team -> BOOLEAN]
    /\ hw \in [of : Team \cup {NoTeam}, state : {"off", "ready"}]
    /\ looked \in SUBSET Team
    /\ raced \in BOOLEAN
    /\ \A t \in Team : pc[t] = "stop" => hwUp[t]

(* The comment at OWNER_PORT_NAME: "One team at a time. [...] A named port *)
(* is the lock".                                                           *)
OneTeamAtATime == \A t, u \in Team : isOpen[t] /\ isOpen[u] => t = u

(* The named port excludes as long as no two teams were between find_port  *)
(* and create_port at once: one claim at a time, and an open decoder finds *)
(* the block as it left it.                                                *)
OwnsUnlessRaced ==
    ~raced =>
        /\ \A t, u \in Team : port[t] /\ port[u] => t = u
        /\ \A t \in Team :
              isOpen[t] /\ pc[t] = "run" => hw = [of |-> t, state |-> "ready"]

(* Whatever races: a team whose open was refused, or that never opened,    *)
(* leaves the block alone (msvdx_close's sHwUp test).                      *)
OnlyClaimantsTouch ==
    [][hw' # hw => \E t \in Team : port[t] /\ hw'.of = t]_vars

(* Inside a team at most one decoder has the hardware, and the three flags *)
(* that record it agree between calls.                                     *)
FlagsAgree == \A t \in Team :
    /\ Cardinality(hardwareOpen[t]) <= 1
    /\ pc[t] = "run" =>
          /\ inUse[t] = isOpen[t]
          /\ isOpen[t] = (hardwareOpen[t] # {})
          /\ port[t] = isOpen[t]

(* No error path keeps the claim: a team that claims and does not come to  *)
(* own the block gives its claim up, or dies.                              *)
ClaimSettles == \A t \in Team : port[t] ~> (isOpen[t] \/ ~port[t])

=============================================================================

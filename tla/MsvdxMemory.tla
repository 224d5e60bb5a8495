---------------------------- MODULE MsvdxMemory ----------------------------
(***************************************************************************)
(* The memory the MSVDX works in: the areas that msvdx_alloc creates and   *)
(* msvdx_free deletes, the decoder addresses they are mapped at, the C     *)
(* variables that hold them, and what a picture in progress may touch      *)
(* (msvdx.c, msvdx_decode.c, the buffers of psb_H264.c and of              *)
(* psb_cmdbuf_host.c).  One team, which has the hardware (MsvdxOwner).     *)
(*                                                                         *)
(* A buffer is one block of the decoder's address space.  Every allocation *)
(* may fail in the two ways msvdx_alloc has: no area, or an area that      *)
(* mmu_map could not map.                                                  *)
(***************************************************************************)
EXTENDS Integers, Sequences, FiniteSets, Functions

CONSTANTS
    Surfaces,    \* surfaces of a configuration
    DevBlocks,   \* blocks of the decoder's 32-bit address space
    MaxAreas,    \* bound: areas ever created
    MaxUnmapped, \* bound: areas that mmu_map could not map
    None         \* no area (buf->area < 0)

ASSUME MemoryAssumption ==
    /\ Surfaces \in Nat \ {0}
    /\ DevBlocks \in Nat \ {0, 1}
    /\ MaxAreas \in Nat
    /\ MaxUnmapped \in Nat
    /\ None \notin 1 .. MaxAreas

VARIABLES
    pc,          \* between calls "closed", "open" or "ready" (configured)
    todo,        \* buffers still to be allocated by the call under way
    holds,       \* holds[n]: the area in C variable n
    sized,       \* sSurfaces
    context,     \* sContext.format_data # NULL
    areas,       \* the areas that exist: what each was created for, its
                 \* decoder address, and whether mmu_map mapped it
    created,     \* areas created so far
    nextDev,     \* sNextDev
    pte,         \* pte[d]: the area that decoder address d leads to
    attached,    \* sContext.cmdbuf # NULL
    pending,     \* areas that the messages waiting in sCmdbuf point at
    busy,        \* areas the MTX may be reading or writing
    late,        \* history: the MTX is still on a picture end() gave up on
    left         \* history: areas that release_configuration deleted while
                 \* a waiting message pointed at them

memory == <<holds, areas, created, nextDev, pte>>
messages == <<attached, pending, busy, late, left>>
vars == <<pc, todo, sized, context, memory, messages>>

surfaceNames == [i \in 1 .. Surfaces |-> <<"surface", i>>]
colocNames == [i \in 1 .. Surfaces |-> <<"colocated", i>>]
Surface(i) == <<"surface", i>>
Colocated(i) == <<"colocated", i>>
Single(n) == <<n, 0>>

Rendec == Single("rendec")
Bitstream == Single("bitstream")
Cmdbuf == Single("cmdbuf")
Preload == Single("preload")
ReferenceCache == Single("reference cache")
VlcTable == Single("vlc table")

Names ==
    {Rendec, Bitstream, Cmdbuf, Preload, ReferenceCache, VlcTable}
        \cup Range(surfaceNames) \cup Range(colocNames)

AreaId == 1 .. MaxAreas
Dev == 0 .. DevBlocks - 1

Origin(n, d, m) == [for |-> n, dev |-> d, mapped |-> m]

(* DEV_VA_BASE is not 0.                                                   *)
DevBase == 1

Init ==
    /\ pc = "closed"
    /\ todo = << >>
    /\ holds = [n \in Names |-> None]
    /\ sized = 0
    /\ context = FALSE
    /\ areas = << >>
    /\ created = 0
    /\ nextDev = DevBase
    /\ pte = [d \in Dev |-> None]
    /\ attached = FALSE
    /\ pending = {}
    /\ busy = {}
    /\ late = FALSE
    /\ left = {}

-----------------------------------------------------------------------------
(* The areas, and one more.                                                *)
Added(a, o) ==
    [b \in DOMAIN areas \cup {a} |-> IF b = a THEN o ELSE areas[b]]

(* A slip: sNextDev stays where it is.                                     *)
CreateAreaInPlace(n, ok) ==
    /\ created < MaxAreas
    /\ created' = created + 1
    /\ areas' = Added(created + 1, Origin(n, nextDev, ok))
    /\ nextDev' = nextDev

(* create_area succeeds: the buffer's decoder address is one that nothing  *)
(* uses again before msvdx_close.                                          *)
CreateArea(n, ok) ==
    /\ created < MaxAreas
    /\ created' = created + 1
    /\ areas' = Added(created + 1, Origin(n, nextDev, ok))
    /\ nextDev' = (nextDev + 1) % DevBlocks

(* msvdx_alloc(n) returning 0 ...                                          *)
Allocates(n) ==
    /\ CreateArea(n, TRUE)
    /\ holds' = [holds EXCEPT ![n] = created + 1]
    /\ pte' = [pte EXCEPT ![nextDev] = created + 1]

(* ... returning 1 because create_area failed ...                          *)
NoArea(n) ==
    /\ holds' = [holds EXCEPT ![n] = None]
    /\ UNCHANGED <<areas, created, nextDev, pte>>

(* mmu_map may fail once more.                                             *)
MayFail == Cardinality({a \in DOMAIN areas : ~areas[a].mapped}) < MaxUnmapped

(* ... or because mmu_map did: the area is there and n holds it.           *)
NotMapped(n) ==
    /\ MayFail
    /\ CreateArea(n, FALSE)
    /\ holds' = [holds EXCEPT ![n] = created + 1]
    /\ UNCHANGED pte

SurfacesUpTo(i) == {Surface(j) : j \in 1 .. i}
AllColocated == Range(colocNames)

(* A slip: the reference cache is forgotten as well.                       *)
ContextShort == {Preload} \cup AllColocated

(* The buffers psb_H264_DestroyContext destroys; the VLC table is not one. *)
ContextBuffers == {ReferenceCache, Preload} \cup AllColocated

(* A slip: msvdx_free leaves the area's number where it was.               *)
ReleaseDangling(S) ==
    /\ areas' = Restrict(areas, DOMAIN areas \ {holds[n] : n \in S})
    /\ UNCHANGED holds

(* msvdx_free of every name in S: the areas go, their PTEs stay.  The VLC  *)
(* table's variable is in the context, which is freed with S.              *)
Release(S) ==
    /\ areas' = Restrict(areas, DOMAIN areas \ {holds[n] : n \in S})
    /\ holds' = [n \in Names |->
                    IF n \in S \/ (n = VlcTable /\ ReferenceCache \in S)
                    THEN None ELSE holds[n]]

(* What release_configuration destroys.                                    *)
Configuration ==
    (IF context THEN ContextBuffers ELSE {}) \cup SurfacesUpTo(sized)

(* release_configuration clears sContext, and with it its command buffer;  *)
(* the messages in sCmdbuf stay, whatever they point at.                   *)
MessagesStay ==
    /\ attached' = FALSE
    /\ left' = left \cup (pending \ DOMAIN areas')
    /\ UNCHANGED <<pending, busy, late>>

-----------------------------------------------------------------------------
(* msvdx_decode_open: msvdx_open (the RENDEC buffers, one block here) and  *)
(* the bitstream buffer.                                                   *)
Open ==
    /\ pc = "closed"
    /\ pc' = "opening"
    /\ todo' = <<Rendec, Bitstream>>
    /\ UNCHANGED <<sized, context, memory, messages>>

OpenAllocates ==
    /\ pc = "opening"
    /\ Allocates(Head(todo))
    /\ todo' = Tail(todo)
    /\ pc' = IF Tail(todo) = << >> THEN "open" ELSE "opening"
    /\ UNCHANGED <<sized, context, messages>>

(* A failed open goes through msvdx_close.                                 *)
OpenFails ==
    /\ pc = "opening"
    /\ NoArea(Head(todo)) \/ NotMapped(Head(todo))
    /\ todo' = << >>
    /\ pc' = "stopping"
    /\ UNCHANGED <<sized, context, messages>>

(* msvdx_decode_configure: the previous configuration is released, and the *)
(* surfaces, then the context's buffers, are allocated one by one.         *)
Configure ==
    /\ pc \in {"open", "ready"}
    /\ Release(Configuration)
    /\ sized' = 0
    /\ context' = FALSE
    /\ todo' = surfaceNames \o <<Preload, ReferenceCache, VlcTable>>
    /\ pc' = "configuring"
    /\ MessagesStay
    /\ UNCHANGED <<created, nextDev, pte>>

(* A slip: sSurfaces counts every buffer.                                  *)
ConfigureCounts ==
    /\ pc = "configuring"
    /\ Allocates(Head(todo))
    /\ todo' = Tail(todo)
    /\ sized' = sized + 1
    /\ IF Tail(todo) = << >>
       THEN pc' = "ready" /\ context' = TRUE
       ELSE pc' = pc /\ context' = context
    /\ UNCHANGED messages

(* The surfaces, then the context's preload buffer, reference cache and    *)
(* VLC table.                                                              *)
ConfigureAllocates ==
    /\ pc = "configuring"
    /\ Allocates(Head(todo))
    /\ todo' = Tail(todo)
    /\ sized' = IF Head(todo) \in Range(surfaceNames) THEN sized + 1 ELSE sized
    /\ IF Tail(todo) = << >>
       THEN pc' = "ready" /\ context' = TRUE
       ELSE pc' = pc /\ context' = context
    /\ UNCHANGED messages

(* A surface that fails leaves the ones before it to release_configuration;*)
(* a context buffer that fails leaves the others to DestroyContext first.  *)
ConfigureFails ==
    /\ pc = "configuring"
    /\ NoArea(Head(todo)) \/ NotMapped(Head(todo))
    /\ todo' = << >>
    /\ pc' = "unwinding"
    /\ UNCHANGED <<sized, context, messages>>

Unwound == SurfacesUpTo(sized) \cup
    (IF sized = Surfaces THEN ContextBuffers ELSE {})

Unwind ==
    /\ pc = "unwinding"
    /\ Release(Unwound)
    /\ sized' = 0
    /\ pc' = "open"
    /\ MessagesStay
    /\ UNCHANGED <<todo, context, created, nextDev, pte>>

(* msvdx_decode_begin on surface i: its colocated buffer is allocated the  *)
(* first time; then the command buffer, by the first slice.                *)
Needed(i) == IF holds[Colocated(i)] = None THEN Colocated(i) ELSE Cmdbuf

Touches(i) ==
    {holds[n] : n \in {Rendec, Bitstream, Cmdbuf, Preload, ReferenceCache,
                       VlcTable, Surface(i), Colocated(i)}}

Begin(i) ==
    /\ pc = "ready"
    /\ holds[Needed(i)] = None
    /\ Allocates(Needed(i))
    /\ UNCHANGED <<pc, todo, sized, context, messages>>

(* The colocated buffer could not be mapped: begin fails, and its variable *)
(* counts as unused still (colocated_buffers_idx did not move).            *)
BeginFails(i) ==
    /\ pc = "ready"
    /\ holds[Colocated(i)] = None
    /\ MayFail
    /\ CreateArea(Colocated(i), FALSE)
    /\ UNCHANGED <<pc, todo, holds, sized, context, pte, messages>>

(* msvdx_decode_slice on surface i: the message waits in sCmdbuf, behind   *)
(* those of any picture that was begun and dropped ...                     *)
SliceWaits(i) ==
    /\ pc = "ready"
    /\ holds[Needed(i)] # None
    /\ pending' = pending \cup Touches(i)
    /\ attached' = TRUE
    /\ UNCHANGED <<pc, todo, sized, context, memory, busy, late, left>>

(* psb_context_flush_cmdbuf sends what waits to the MTX and detaches the   *)
(* command buffer.                                                         *)
Flushes ==
    /\ busy' = busy \cup pending
    /\ attached' = FALSE
    /\ pc' = "picture"
    /\ UNCHANGED <<todo, sized, context, memory, late, left>>

(* ... or finds the batch full, and is first in the next one.              *)
SliceFlushes(i) ==
    /\ pc = "ready"
    /\ holds[Needed(i)] # None
    /\ pending # {}
    /\ Flushes
    /\ pending' = Touches(i)

(* msvdx_decode_end sends what waits if there is a command buffer ...      *)
EndSends ==
    /\ pc = "ready"
    /\ attached
    /\ pending # {}
    /\ Flushes
    /\ pending' = {}

(* A slip: end() does not wait.                                            *)
EndReturnsAtOnce ==
    /\ pc = "picture"
    /\ pc' = "ready"
    /\ UNCHANGED <<todo, sized, context, memory, messages>>

(* ... and waits until it is done, or for two seconds.                     *)
EndReturns ==
    /\ pc = "picture"
    /\ pc' = "ready"
    /\ late' = (busy # {})
    /\ UNCHANGED <<todo, sized, context, memory, attached, pending, busy,
                   left>>

MtxFinishes ==
    /\ busy # {}
    /\ busy' = {}
    /\ late' = FALSE
    /\ UNCHANGED <<pc, todo, sized, context, memory, attached, pending, left>>

(* msvdx_decode_close: the configuration, the bitstream and the command    *)
(* buffer with its messages go first ...                                   *)
Close ==
    /\ pc \in {"open", "ready"}
    /\ Release(Configuration \cup {Bitstream, Cmdbuf})
    /\ sized' = 0
    /\ context' = FALSE
    /\ pc' = "stopping"
    /\ attached' = FALSE
    /\ pending' = {}
    /\ UNCHANGED <<todo, created, nextDev, pte, busy, late, left>>

(* ... then msvdx_close stops the MTX and drops RENDEC and the page tables.*)
Stop ==
    /\ pc = "stopping"
    /\ busy' = {}
    /\ late' = FALSE
    /\ left' = {}
    /\ Release({Rendec})
    /\ nextDev' = DevBase
    /\ pte' = [d \in Dev |-> None]
    /\ pc' = "closed"
    /\ UNCHANGED <<todo, sized, context, created, attached, pending>>

-----------------------------------------------------------------------------
Next ==
    \/ Open \/ OpenAllocates \/ OpenFails
    \/ Configure \/ ConfigureAllocates \/ ConfigureFails \/ Unwind
    \/ \E i \in 1 .. Surfaces :
          Begin(i) \/ BeginFails(i) \/ SliceWaits(i) \/ SliceFlushes(i)
    \/ EndSends \/ EndReturns \/ MtxFinishes
    \/ Close \/ Stop

Spec == Init /\ [][Next]_vars

-----------------------------------------------------------------------------
(* The variables hold areas that were created, addresses stay within the   *)
(* decoder's space, and sSurfaces never exceeds what was asked for.        *)
TypeOK ==
    /\ pc \in {"closed", "opening", "open", "configuring", "unwinding",
               "ready", "picture", "stopping"}
    /\ todo \in Seq(Names)
    /\ holds \in [Names -> AreaId \cup {None}]
    /\ sized \in 0 .. Surfaces
    /\ context \in BOOLEAN
    /\ DOMAIN areas \subseteq AreaId
    /\ Range(areas) \subseteq [for : Names, dev : Dev, mapped : BOOLEAN]
    /\ created \in 0 .. MaxAreas
    /\ nextDev \in Dev
    /\ pte \in [Dev -> AreaId \cup {None}]
    /\ attached \in BOOLEAN
    /\ pending \in SUBSET AreaId
    /\ busy \in SUBSET AreaId
    /\ late \in BOOLEAN
    /\ left \in SUBSET AreaId

Held == Range(holds) \ {None}

(* In use, every buffer is where the decoder's MMU points: its address was *)
(* not given to another, though sNextDev only ever advances.               *)
MmuPointsHome ==
    pc \in {"ready", "picture"} =>
        \A n \in Names :
            holds[n] # None => pte[areas[holds[n]].dev] = holds[n]

(* What the hardware may be reading or writing exists ("Locked, so every   *)
(* page stays where the decoder's MMU points", msvdx_alloc).               *)
BusyIsThere == busy \subseteq DOMAIN areas

(* ... as long as end() has not given up on a picture the MTX is still on, *)
(* and but for what the messages of a picture that was dropped before end()*)
(* pointed at when msvdx_decode_configure released the configuration: they *)
(* are sent with the next picture's.                                       *)
BusyIsThereUnlessLeft == ~late => busy \ left \subseteq DOMAIN areas

(* No variable holds an area that is gone: nothing is freed twice, and no  *)
(* picture is given a buffer of an earlier configuration.  And the areas   *)
(* nobody can free any more are those that mmu_map could not map and the   *)
(* VLC tables that psb_H264_DestroyContext forgets, which outlive          *)
(* msvdx_close, where "everything the decoder could address goes".         *)
AreasAccounted ==
    /\ Held \subseteq DOMAIN areas
    /\ \A a \in DOMAIN areas \ Held :
           areas[a].for = VlcTable \/ ~areas[a].mapped

=============================================================================

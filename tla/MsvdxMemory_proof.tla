-------------------------- MODULE MsvdxMemory_proof --------------------------
(***************************************************************************)
(* Theorems about MsvdxMemory, for any number of surfaces, any bound on    *)
(* the areas and any failures of the allocations: nothing is freed twice   *)
(* or forgotten, nothing the MTX may be using is freed unless end() gave   *)
(* up on it or a dropped picture's message led there, and as long as       *)
(* sNextDev does not wrap every buffer is where the page tables say.       *)
(*                                                                         *)
(* The argument: between two calls, and between two allocations of one     *)
(* call, it is known which buffers must be held and mapped and which may   *)
(* be; every other variable holds nothing, or an area mmu_map could not    *)
(* map, so msvdx_alloc never overwrites the last number of a good one.     *)
(***************************************************************************)
EXTENDS MsvdxMemory, TLAPS

(* sNextDev stays in the address space.                                    *)
NoWrap == MaxAreas + 1 < DevBlocks

(* n holds an area, and one that mmu_map mapped.                           *)
Mapped(n) == holds[n] # None /\ areas[holds[n]].mapped

(* The buffers of a configuration, in the order they are allocated, and    *)
(* how many of them are there while todo holds the others.                 *)
Total == Surfaces + 3

Place(j) ==
    IF j <= Surfaces THEN Surface(j)
    ELSE IF j = Surfaces + 1 THEN Preload
    ELSE IF j = Surfaces + 2 THEN ReferenceCache ELSE VlcTable

Places(k) == {Place(j) : j \in 1 .. k}

Done == Total - Len(todo)

(* The buffers a configuration gets when a picture first needs them.       *)
Kept == {Cmdbuf} \cup AllColocated

-----------------------------------------------------------------------------
(* The types of the memory's variables ...                                 *)
MemoryType ==
    /\ holds \in [Names -> AreaId \cup {None}]
    /\ DOMAIN areas \subseteq AreaId
    /\ \A a \in DOMAIN areas :
          areas[a] \in [for : Names, dev : Dev, mapped : BOOLEAN]
    /\ created \in 0 .. MaxAreas
    /\ nextDev \in Dev
    /\ pte \in [Dev -> AreaId \cup {None}]

(* ... what holds the areas ...                                            *)
AreasKept ==
    /\ \A a \in DOMAIN areas : a <= created
    /\ \A n \in Names :
          holds[n] # None => /\ holds[n] \in DOMAIN areas
                             /\ areas[holds[n]].for = n
    /\ \A a \in DOMAIN areas :
          \/ \E n \in Names : holds[n] = a
          \/ areas[a].for = VlcTable
          \/ ~areas[a].mapped

(* ... and where they are mapped.                                          *)
Space ==
    NoWrap =>
        /\ nextDev <= created + 1
        /\ \A d \in Dev : d >= nextDev => pte[d] = None
        /\ \A n \in Names : Mapped(n) => pte[areas[holds[n]].dev] = holds[n]

Memory == MemoryType /\ AreasKept /\ Space

(* The types of the rest.                                                  *)
ControlType ==
    /\ pc \in {"closed", "opening", "open", "configuring", "unwinding",
               "ready", "picture", "stopping"}
    /\ todo \in Seq(Names)
    /\ sized \in 0 .. Surfaces
    /\ context \in BOOLEAN
    /\ attached \in BOOLEAN
    /\ pending \in SUBSET AreaId
    /\ busy \in SUBSET AreaId
    /\ late \in BOOLEAN
    /\ left \in SUBSET AreaId

(* Every buffer in must is mapped, and no buffer outside may.              *)
Between(must, may) ==
    /\ \A n \in must : Mapped(n)
    /\ \A n \in Names : Mapped(n) => n \in may

(* The rest of a configuration is still to be allocated.                   *)
Lined ==
    /\ Len(todo) \in 1 .. Total
    /\ \A j \in 1 .. Len(todo) : todo[j] = Place(Done + j)

Device == {Rendec, Bitstream}

(* What is mapped in each phase ...                                        *)
Phase ==
    /\ pc = "closed" => Between({}, {})
    /\ pc = "opening" =>
          \/ todo = <<Rendec, Bitstream>> /\ Between({}, {})
          \/ todo = <<Bitstream>> /\ Between({Rendec}, {Rendec})
    /\ pc = "open" => Between(Device, Device \cup {Cmdbuf})
    /\ pc = "configuring" =>
          /\ Lined
          /\ Between(Device \cup Places(Done),
                     Device \cup {Cmdbuf} \cup Places(Done))
    /\ pc = "unwinding" => Between(Device, Device \cup {Cmdbuf} \cup Unwound)
    /\ pc \in {"ready", "picture"} =>
          Between(Device \cup Places(Total), Names)
    /\ pc = "stopping" => Between({}, {Rendec})
    /\ \A n \in Kept : holds[n] # None => Mapped(n)

(* ... and what the counters say of it.                                    *)
Counts ==
    /\ pc \in {"closed", "opening", "open", "stopping"} => sized = 0
    /\ pc = "configuring" =>
          sized = IF Done <= Surfaces THEN Done ELSE Surfaces
    /\ pc \in {"ready", "picture"} => sized = Surfaces /\ context = TRUE
    /\ pc \notin {"ready", "picture"} => context = FALSE

(* Nothing is busy outside end(), unless it gave up; and what is busy, or  *)
(* waits to be sent, is there unless a release left it behind.             *)
Busy ==
    /\ busy # {} => late \/ pc = "picture"
    /\ ~late => busy \ left \subseteq DOMAIN areas
    /\ pending \ left \subseteq DOMAIN areas
    /\ pc \in {"closed", "opening", "stopping"} => pending = {}

IInv == ControlType /\ Memory /\ Phase /\ Counts /\ Busy

-----------------------------------------------------------------------------
(* The names: which there are ...                                          *)
LEMMA NamesAre ==
    /\ Rendec \in Names /\ Bitstream \in Names /\ Cmdbuf \in Names
    /\ Preload \in Names /\ ReferenceCache \in Names /\ VlcTable \in Names
    /\ \A i \in 1 .. Surfaces : Surface(i) \in Names /\ Colocated(i) \in Names
    /\ Range(surfaceNames) = {Surface(i) : i \in 1 .. Surfaces}
    /\ AllColocated = {Colocated(i) : i \in 1 .. Surfaces}
    /\ Names = Device \cup Kept \cup Places(Total)
    /\ Places(Total) = {Surface(i) : i \in 1 .. Surfaces}
                          \cup {Preload, ReferenceCache, VlcTable}
<1>1. Range(surfaceNames) = {Surface(i) : i \in 1 .. Surfaces}
  BY DEF Range, surfaceNames, Surface
<1>2. AllColocated = {Colocated(i) : i \in 1 .. Surfaces}
  BY DEF Range, AllColocated, colocNames, Colocated
<1>3. Places(Total) =
        {Surface(i) : i \in 1 .. Surfaces}
            \cup {Preload, ReferenceCache, VlcTable}
  <2>1. Surfaces \in Nat
    BY MemoryAssumption
  <2>2. ASSUME NEW n \in Places(Total)
        PROVE  n \in {Surface(i) : i \in 1 .. Surfaces}
                       \cup {Preload, ReferenceCache, VlcTable}
    BY <2>1, <2>2 DEF Places, Place, Total
  <2>3. ASSUME NEW i \in 1 .. Surfaces
        PROVE  Surface(i) \in Places(Total)
    <3>1. i \in 1 .. Total /\ Place(i) = Surface(i)
      BY <2>1 DEF Place, Total
    <3>2. QED
      BY <3>1 DEF Places
  <2>4. Surfaces + 1 \in 1 .. Total /\ Place(Surfaces + 1) = Preload
    BY <2>1 DEF Place, Total
  <2>5. Surfaces + 2 \in 1 .. Total /\ Place(Surfaces + 2) = ReferenceCache
    BY <2>1 DEF Place, Total
  <2>6. Surfaces + 3 \in 1 .. Total /\ Place(Surfaces + 3) = VlcTable
    BY <2>1 DEF Place, Total
  <2>7. /\ Preload \in Places(Total) /\ ReferenceCache \in Places(Total)
        /\ VlcTable \in Places(Total)
    BY <2>4, <2>5, <2>6 DEF Places
  <2>8. QED
    BY <2>2, <2>3, <2>7
<1>4. Names = Device \cup Kept \cup Places(Total)
  BY <1>1, <1>2, <1>3 DEF Names, Device, Kept, AllColocated
<1>5. /\ Rendec \in Names /\ Bitstream \in Names /\ Cmdbuf \in Names
      /\ Preload \in Names /\ ReferenceCache \in Names /\ VlcTable \in Names
  BY DEF Names
<1>6. \A i \in 1 .. Surfaces : Surface(i) \in Names /\ Colocated(i) \in Names
  BY <1>1, <1>2 DEF Names, AllColocated
<1>7. QED
  BY <1>1, <1>2, <1>3, <1>4, <1>5, <1>6

(* ... how they are told apart ...                                         *)
LEMMA TagsAre ==
    /\ \A i : Surface(i)[1] = "surface" /\ Surface(i)[2] = i
    /\ \A i : Colocated(i)[1] = "colocated"
    /\ Rendec[1] = "rendec" /\ Bitstream[1] = "bitstream"
    /\ Cmdbuf[1] = "cmdbuf" /\ Preload[1] = "preload"
    /\ ReferenceCache[1] = "reference cache" /\ VlcTable[1] = "vlc table"
BY DEF Surface, Colocated, Rendec, Bitstream, Cmdbuf, Preload,
       ReferenceCache, VlcTable, Single

(* ... which one is allocated when ...                                     *)
LEMMA PlaceIs ==
    ASSUME NEW j \in 1 .. Total
    PROVE  \/ j <= Surfaces /\ Place(j) = Surface(j)
           \/ j = Surfaces + 1 /\ Place(j) = Preload
           \/ j = Surfaces + 2 /\ Place(j) = ReferenceCache
           \/ j = Surfaces + 3 /\ Place(j) = VlcTable
BY MemoryAssumption DEF Place, Total

(* ... and by which tag it is known ...                                    *)
LEMMA PlaceTagIs ==
    ASSUME NEW j \in 1 .. Total
    PROVE  \/ /\ j <= Surfaces
              /\ Place(j)[1] = "surface" /\ Place(j)[2] = j
           \/ j = Surfaces + 1 /\ Place(j)[1] = "preload"
           \/ j = Surfaces + 2 /\ Place(j)[1] = "reference cache"
           \/ j = Surfaces + 3 /\ Place(j)[1] = "vlc table"
<1>1. CASE j <= Surfaces /\ Place(j) = Surface(j)
  BY <1>1, TagsAre
<1>2. CASE j = Surfaces + 1 /\ Place(j) = Preload
  BY <1>2, TagsAre
<1>3. CASE j = Surfaces + 2 /\ Place(j) = ReferenceCache
  BY <1>3, TagsAre
<1>4. CASE j = Surfaces + 3 /\ Place(j) = VlcTable
  BY <1>4, TagsAre
<1>5. QED
  BY <1>1, <1>2, <1>3, <1>4, PlaceIs

(* ... that the device's, the kept ones and those of a configuration are   *)
(* different ...                                                           *)
LEMMA NamesDiffer ==
    /\ Rendec # Bitstream /\ VlcTable # ReferenceCache
    /\ Device \cap Kept = {}
    /\ Device \cap Places(Total) = {}
    /\ Kept \cap Places(Total) = {}
<1>1. Rendec # Bitstream /\ VlcTable # ReferenceCache
  BY TagsAre
<1>2. \A n \in Device : n[1] \in {"rendec", "bitstream"}
  BY TagsAre DEF Device
<1>3. \A n \in Kept : n[1] \in {"cmdbuf", "colocated"}
  BY NamesAre, TagsAre DEF Kept
<1>4. \A n \in Places(Total) :
        n[1] \in {"surface", "preload", "reference cache", "vlc table"}
  BY PlaceTagIs DEF Places
<1>5. QED
  BY <1>1, <1>2, <1>3, <1>4

(* ... and that no two places of a configuration are one.                  *)
LEMMA PlacesDiffer ==
    ASSUME NEW j \in 1 .. Total, NEW k \in 1 .. Total, Place(j) = Place(k)
    PROVE  j = k
BY MemoryAssumption, PlaceTagIs DEF Total

(* The places up to k, and one more.                                       *)
LEMMA OnePlaceMore ==
    ASSUME NEW k \in 0 .. Total - 1
    PROVE  /\ Places(k + 1) = Places(k) \cup {Place(k + 1)}
           /\ Place(k + 1) \notin Places(k)
           /\ Place(k + 1) \in Names
           /\ Places(k) \subseteq Names
           /\ Place(k + 1) \in Range(surfaceNames) <=> k < Surfaces
<1>1. Total \in Nat /\ k \in Nat /\ k + 1 \in 1 .. Total
  BY MemoryAssumption DEF Total
<1>2. Places(k + 1) = Places(k) \cup {Place(k + 1)}
  <2>1. 1 .. k + 1 = (1 .. k) \cup {k + 1}
    BY <1>1
  <2>2. QED
    BY <2>1 DEF Places
<1>3. Place(k + 1) \notin Places(k)
  <2>1. ASSUME NEW j \in 1 .. k, Place(j) = Place(k + 1)
        PROVE  FALSE
    <3>1. j \in 1 .. Total
      BY <1>1
    <3>2. j = k + 1
      BY <1>1, <2>1, <3>1, PlacesDiffer
    <3>3. QED
      BY <1>1, <3>2
  <2>2. QED
    BY <2>1 DEF Places
<1>4. Place(k + 1) \in Places(Total)
  BY <1>1 DEF Places
<1>5. Places(k) \subseteq Places(Total)
  BY <1>1 DEF Places
<1>6. Place(k + 1) \in Range(surfaceNames) <=> k < Surfaces
  <2>1. Surfaces \in Nat
    BY MemoryAssumption
  <2>2. CASE k < Surfaces
    BY <1>1, <2>1, <2>2, NamesAre DEF Place
  <2>3. CASE ~(k < Surfaces)
    <3>1. Place(k + 1) \in {Preload, ReferenceCache, VlcTable}
      BY <1>1, <2>1, <2>3 DEF Place, Total
    <3>2. \A i \in 1 .. Surfaces : Surface(i) # Place(k + 1)
      BY <3>1, TagsAre
    <3>3. QED
      BY <2>3, <3>2, NamesAre
  <2>4. QED
    BY <2>2, <2>3
<1>7. QED
  BY <1>2, <1>3, <1>4, <1>5, <1>6, NamesAre

-----------------------------------------------------------------------------
(* A name holds an area of its own, which None is not.                     *)
LEMMA HoldsIs ==
    ASSUME Memory, NEW n \in Names
    PROVE  /\ holds[n] \in AreaId \cup {None}
           /\ None \notin AreaId /\ None \notin DOMAIN areas
           /\ holds[n] # None =>
                 /\ holds[n] \in DOMAIN areas
                 /\ areas[holds[n]].for = n
                 /\ areas[holds[n]].mapped \in BOOLEAN
           /\ \A m \in Names : holds[m] = holds[n] /\ m # n => holds[n] = None
<1>1. None \notin AreaId /\ None \notin DOMAIN areas
  BY MemoryAssumption DEF AreaId, Memory, MemoryType
<1>2. holds[n] \in AreaId \cup {None}
  BY DEF Memory, MemoryType
<1>3. holds[n] # None => holds[n] \in DOMAIN areas /\ areas[holds[n]].for = n
  BY DEF Memory, AreasKept
<1>4. holds[n] # None => areas[holds[n]].mapped \in BOOLEAN
  BY <1>3 DEF Memory, MemoryType
<1>5. \A m \in Names : holds[m] = holds[n] /\ m # n => holds[n] = None
  BY DEF Memory, AreasKept
<1>6. QED
  BY <1>1, <1>2, <1>3, <1>4, <1>5

(* create_area makes one area more and changes no other.                   *)
LEMMA CreateAreaIs ==
    ASSUME Memory, NEW n \in Names, NEW ok \in BOOLEAN, CreateArea(n, ok)
    PROVE  /\ created' = created + 1 /\ created' \in 0 .. MaxAreas
           /\ created' \in AreaId
           /\ created' # None /\ created' \notin DOMAIN areas
           /\ DOMAIN areas' = DOMAIN areas \cup {created'}
           /\ DOMAIN areas' \subseteq AreaId
           /\ \A a \in DOMAIN areas : areas'[a] = areas[a]
           /\ areas'[created'] = Origin(n, nextDev, ok)
           /\ \A a \in DOMAIN areas' :
                 areas'[a] \in [for : Names, dev : Dev, mapped : BOOLEAN]
           /\ \A a \in DOMAIN areas' : a <= created'
           /\ nextDev' \in Dev
           /\ NoWrap => nextDev' = nextDev + 1 /\ nextDev' <= created' + 1
<1>1. /\ MaxAreas \in Nat /\ DevBlocks \in Nat \ {0, 1}
      /\ created \in Nat /\ nextDev \in Nat /\ nextDev \in Dev
      /\ created < MaxAreas
  BY MemoryAssumption DEF CreateArea, Memory, MemoryType, Dev
<1>2. created' = created + 1 /\ created' \in AreaId
  BY <1>1 DEF CreateArea, AreaId
<1>3. created' # None
  BY <1>2, MemoryAssumption DEF AreaId
<1>4. \A a \in DOMAIN areas : a <= created /\ a \in AreaId
  BY DEF Memory, AreasKept, MemoryType
<1>5. created' \notin DOMAIN areas
  BY <1>1, <1>2, <1>4
<1>6. areas' = [b \in DOMAIN areas \cup {created'} |->
                   IF b = created' THEN Origin(n, nextDev, ok) ELSE areas[b]]
  BY <1>2 DEF CreateArea, Added
<1>7. DOMAIN areas' = DOMAIN areas \cup {created'}
  BY <1>6
<1>8. \A a \in DOMAIN areas : areas'[a] = areas[a]
  BY <1>5, <1>6
<1>9. areas'[created'] = Origin(n, nextDev, ok)
  BY <1>6
<1>10. \A a \in DOMAIN areas' :
          areas'[a] \in [for : Names, dev : Dev, mapped : BOOLEAN]
  <2>1. Origin(n, nextDev, ok) \in [for : Names, dev : Dev, mapped : BOOLEAN]
    BY <1>1 DEF Origin
  <2>2. \A a \in DOMAIN areas :
          areas[a] \in [for : Names, dev : Dev, mapped : BOOLEAN]
    BY DEF Memory, MemoryType
  <2>3. QED
    BY <1>7, <1>8, <1>9, <2>1, <2>2
<1>11. \A a \in DOMAIN areas' : a <= created' /\ a \in AreaId
  BY <1>1, <1>2, <1>4, <1>7 DEF AreaId
<1>12. nextDev' \in Dev
  BY <1>1 DEF CreateArea, Dev
<1>13. NoWrap => nextDev' = nextDev + 1 /\ nextDev' <= created' + 1
  <2>1. SUFFICES ASSUME NoWrap
                 PROVE  nextDev' = nextDev + 1 /\ nextDev' <= created' + 1
    OBVIOUS
  <2>2. nextDev <= created + 1
    BY <2>1 DEF Memory, Space
  <2>3. nextDev + 1 < DevBlocks
    BY <1>1, <2>1, <2>2 DEF NoWrap
  <2>4. (nextDev + 1) % DevBlocks = nextDev + 1
    BY <1>1, <2>3
  <2>5. QED
    BY <1>1, <1>2, <2>2, <2>4 DEF CreateArea
<1>14. created' \in 0 .. MaxAreas
  BY <1>1, <1>2
<1>15. QED
  BY <1>2, <1>3, <1>5, <1>7, <1>8, <1>9, <1>10, <1>11, <1>12, <1>13, <1>14

(* A name that keeps its area keeps it as it is.                           *)
LEMMA KeepsArea ==
    ASSUME Memory, NEW m \in Names, holds'[m] = holds[m],
           holds[m] # None => areas'[holds[m]] = areas[holds[m]]
    PROVE  Mapped(m)' <=> Mapped(m)
BY DEF Mapped

(* msvdx_alloc(n), where n holds nothing good: n is mapped, the others are *)
(* as they were.                                                           *)
LEMMA AllocatesIs ==
    ASSUME Memory, NEW n \in Names, ~Mapped(n), Allocates(n)
    PROVE  /\ Memory'
           /\ Mapped(n)'
           /\ \A m \in Names \ {n} : /\ holds'[m] = holds[m]
                                     /\ Mapped(m)' <=> Mapped(m)
           /\ DOMAIN areas \subseteq DOMAIN areas'
<1>1. CreateArea(n, TRUE)
  BY DEF Allocates
<1>2. /\ holds' = [holds EXCEPT ![n] = created']
      /\ pte' = [pte EXCEPT ![nextDev] = created']
  BY <1>1, CreateAreaIs DEF Allocates
<1>3. /\ created' \in AreaId /\ created' # None
      /\ created' \notin DOMAIN areas
      /\ DOMAIN areas' = DOMAIN areas \cup {created'}
      /\ \A a \in DOMAIN areas : areas'[a] = areas[a]
      /\ areas'[created'] = Origin(n, nextDev, TRUE)
  BY <1>1, CreateAreaIs
<1>4. /\ holds \in [Names -> AreaId \cup {None}]
      /\ pte \in [Dev -> AreaId \cup {None}]
      /\ nextDev \in Dev
  BY DEF Memory, MemoryType
<1>5. /\ holds'[n] = created'
      /\ \A m \in Names \ {n} : holds'[m] = holds[m]
  BY <1>2, <1>4
<1>6. MemoryType'
  <2>1. /\ holds' \in [Names -> AreaId \cup {None}]
        /\ pte' \in [Dev -> AreaId \cup {None}]
    BY <1>2, <1>3, <1>4
  <2>2. QED
    BY <1>1, <2>1, CreateAreaIs DEF MemoryType
<1>7. Mapped(n)'
  BY <1>3, <1>5 DEF Mapped, Origin
<1>8. ASSUME NEW m \in Names \ {n}
      PROVE  Mapped(m)' <=> Mapped(m)
  BY <1>3, <1>5, HoldsIs, KeepsArea
<1>9. AreasKept'
  <2>1. \A a \in DOMAIN areas' : a <= created'
    BY <1>1, CreateAreaIs
  <2>2. ASSUME NEW m \in Names, holds'[m] # None
        PROVE  holds'[m] \in DOMAIN areas' /\ areas'[holds'[m]].for = m
    <3>1. CASE m = n
      BY <1>3, <1>5, <3>1 DEF Origin
    <3>2. CASE m # n
      BY <1>3, <1>5, <2>2, <3>2, HoldsIs
    <3>3. QED
      BY <3>1, <3>2
  <2>3. ASSUME NEW a \in DOMAIN areas'
        PROVE  \/ \E m \in Names : holds'[m] = a
               \/ areas'[a].for = VlcTable
               \/ ~areas'[a].mapped
    <3>1. CASE a = created'
      BY <1>5, <3>1
    <3>2. CASE a # created'
      <4>1. a \in DOMAIN areas /\ areas'[a] = areas[a]
        BY <1>3, <3>2
      <4>2. \/ \E m \in Names : holds[m] = a
            \/ areas[a].for = VlcTable
            \/ ~areas[a].mapped
        BY <4>1 DEF Memory, AreasKept
      <4>3. ASSUME NEW m \in Names, holds[m] = a
            PROVE  \/ \E k \in Names : holds'[k] = a
                   \/ ~areas'[a].mapped
        <5>1. CASE m = n
          <6>1. holds[n] # None
            BY <4>1, <4>3, <5>1, HoldsIs
          <6>2. QED
            BY <4>1, <4>3, <5>1, <6>1 DEF Mapped
        <5>2. CASE m # n
          BY <1>5, <4>3, <5>2
        <5>3. QED
          BY <5>1, <5>2
      <4>4. QED
        BY <4>1, <4>2, <4>3
    <3>3. QED
      BY <3>1, <3>2
  <2>4. QED
    BY <2>1, <2>2, <2>3 DEF AreasKept
<1>10. Space'
  <2>1. SUFFICES ASSUME NoWrap
                 PROVE  /\ nextDev' <= created' + 1
                        /\ \A d \in Dev : d >= nextDev' => pte'[d] = None
                        /\ \A m \in Names :
                              Mapped(m)' =>
                                  pte'[areas'[holds'[m]].dev] = holds'[m]
    BY DEF Space
  <2>2. nextDev' = nextDev + 1 /\ nextDev' <= created' + 1
    BY <1>1, <2>1, CreateAreaIs
  <2>3. /\ \A d \in Dev : d >= nextDev => pte[d] = None
        /\ \A m \in Names : Mapped(m) => pte[areas[holds[m]].dev] = holds[m]
    BY <2>1 DEF Memory, Space
  <2>4. /\ pte'[nextDev] = created'
        /\ \A d \in Dev \ {nextDev} : pte'[d] = pte[d]
    BY <1>2, <1>4
  <2>5. nextDev \in Nat /\ Dev \subseteq Int
    BY <1>4 DEF Dev
  <2>6. \A d \in Dev : d >= nextDev' => pte'[d] = None
    BY <2>2, <2>3, <2>4, <2>5
  <2>7. ASSUME NEW m \in Names, Mapped(m)'
        PROVE  pte'[areas'[holds'[m]].dev] = holds'[m]
    <3>1. CASE m = n
      BY <1>3, <1>5, <2>4, <3>1 DEF Origin
    <3>2. CASE m # n
      <4>1. Mapped(m) /\ holds'[m] = holds[m]
        BY <1>5, <1>8, <2>7, <3>2
      <4>2. holds[m] # None /\ holds[m] \in DOMAIN areas
        BY <4>1, HoldsIs DEF Mapped
      <4>3. areas'[holds[m]] = areas[holds[m]]
        BY <1>3, <4>2
      <4>4. areas[holds[m]].dev \in Dev
        BY <4>2 DEF Memory, MemoryType
      <4>5. pte[areas[holds[m]].dev] = holds[m]
        BY <2>3, <4>1
      <4>6. areas[holds[m]].dev # nextDev
        BY <1>4, <2>3, <2>5, <4>2, <4>5
      <4>7. QED
        BY <2>4, <4>1, <4>3, <4>4, <4>5, <4>6
    <3>3. QED
      BY <3>1, <3>2
  <2>8. QED
    BY <2>2, <2>6, <2>7
<1>11. QED
  BY <1>3, <1>5, <1>6, <1>7, <1>8, <1>9, <1>10 DEF Memory

(* An area that mmu_map could not map, and no variable or one that held    *)
(* nothing good has it: nothing else changes.                              *)
LEMMA UnmappedIs ==
    ASSUME Memory, NEW n \in Names, ~Mapped(n), CreateArea(n, FALSE),
           holds' = holds \/ holds' = [holds EXCEPT ![n] = created'],
           pte' = pte
    PROVE  /\ Memory'
           /\ \A m \in Names \ {n} : holds'[m] = holds[m]
           /\ \A m \in Names : Mapped(m)' <=> Mapped(m)
           /\ DOMAIN areas \subseteq DOMAIN areas'
<1>1. /\ created' \in AreaId /\ created' # None
      /\ created' \notin DOMAIN areas
      /\ DOMAIN areas' = DOMAIN areas \cup {created'}
      /\ \A a \in DOMAIN areas : areas'[a] = areas[a]
      /\ areas'[created'] = Origin(n, nextDev, FALSE)
  BY CreateAreaIs
<1>2. holds \in [Names -> AreaId \cup {None}]
  BY DEF Memory, MemoryType
<1>3. /\ holds'[n] \in {holds[n], created'}
      /\ \A m \in Names \ {n} : holds'[m] = holds[m]
      /\ holds' \in [Names -> AreaId \cup {None}]
  BY <1>1, <1>2
<1>4. MemoryType'
  <2>1. pte' \in [Dev -> AreaId \cup {None}]
    BY DEF Memory, MemoryType
  <2>2. QED
    BY <1>3, <2>1, CreateAreaIs DEF MemoryType
<1>5. holds'[n] = created' => ~Mapped(n)'
  BY <1>1 DEF Mapped, Origin
<1>6. ASSUME NEW m \in Names, holds'[m] = holds[m]
      PROVE  Mapped(m)' <=> Mapped(m)
  BY <1>1, <1>6, HoldsIs, KeepsArea
<1>7. \A m \in Names : Mapped(m)' <=> Mapped(m)
  BY <1>3, <1>5, <1>6
<1>8. AreasKept'
  <2>1. \A a \in DOMAIN areas' : a <= created'
    BY CreateAreaIs
  <2>2. ASSUME NEW m \in Names, holds'[m] # None
        PROVE  holds'[m] \in DOMAIN areas' /\ areas'[holds'[m]].for = m
    <3>1. CASE m = n /\ holds'[m] = created'
      BY <1>1, <3>1 DEF Origin
    <3>2. CASE holds'[m] = holds[m]
      BY <1>1, <2>2, <3>2, HoldsIs
    <3>3. QED
      BY <1>3, <3>1, <3>2
  <2>3. ASSUME NEW a \in DOMAIN areas'
        PROVE  \/ \E m \in Names : holds'[m] = a
               \/ areas'[a].for = VlcTable
               \/ ~areas'[a].mapped
    <3>1. CASE a = created'
      BY <1>1, <3>1 DEF Origin
    <3>2. CASE a # created'
      <4>1. a \in DOMAIN areas /\ areas'[a] = areas[a]
        BY <1>1, <3>2
      <4>2. \/ \E m \in Names : holds[m] = a
            \/ areas[a].for = VlcTable
            \/ ~areas[a].mapped
        BY <4>1 DEF Memory, AreasKept
      <4>3. ASSUME NEW m \in Names, holds[m] = a
            PROVE  \/ \E k \in Names : holds'[k] = a
                   \/ ~areas'[a].mapped
        <5>1. CASE m = n
          <6>1. holds[n] # None
            BY <4>1, <4>3, <5>1, HoldsIs
          <6>2. QED
            BY <4>1, <4>3, <5>1, <6>1 DEF Mapped
        <5>2. CASE m # n
          BY <1>3, <4>3, <5>2
        <5>3. QED
          BY <5>1, <5>2
      <4>4. QED
        BY <4>1, <4>2, <4>3
    <3>3. QED
      BY <3>1, <3>2
  <2>4. QED
    BY <2>1, <2>2, <2>3 DEF AreasKept
<1>9. Space'
  <2>1. SUFFICES ASSUME NoWrap
                 PROVE  /\ nextDev' <= created' + 1
                        /\ \A d \in Dev : d >= nextDev' => pte[d] = None
                        /\ \A m \in Names :
                              Mapped(m)' =>
                                  pte[areas'[holds'[m]].dev] = holds'[m]
    BY DEF Space
  <2>2. nextDev' = nextDev + 1 /\ nextDev' <= created' + 1
    BY <2>1, CreateAreaIs
  <2>3. /\ \A d \in Dev : d >= nextDev => pte[d] = None
        /\ \A m \in Names : Mapped(m) => pte[areas[holds[m]].dev] = holds[m]
    BY <2>1 DEF Memory, Space
  <2>4. nextDev \in Nat /\ Dev \subseteq Int
    BY DEF Memory, MemoryType, Dev
  <2>5. ASSUME NEW m \in Names, Mapped(m)'
        PROVE  pte[areas'[holds'[m]].dev] = holds'[m]
    <3>1. holds'[m] = holds[m]
      BY <1>3, <1>5, <2>5
    <3>2. Mapped(m)
      BY <1>7, <2>5
    <3>3. areas'[holds[m]] = areas[holds[m]]
      BY <1>1, <3>2, HoldsIs DEF Mapped
    <3>4. QED
      BY <2>3, <3>1, <3>2, <3>3
  <2>6. QED
    BY <2>2, <2>3, <2>4, <2>5
<1>10. QED
  BY <1>1, <1>3, <1>4, <1>7, <1>8, <1>9 DEF Memory

(* msvdx_alloc(n) fails, where n holds nothing good: still it holds        *)
(* nothing good, and the others are as they were.                          *)
LEMMA AllocFailsIs ==
    ASSUME Memory, NEW n \in Names, ~Mapped(n), NoArea(n) \/ NotMapped(n)
    PROVE  /\ Memory'
           /\ \A m \in Names \ {n} : holds'[m] = holds[m]
           /\ \A m \in Names : Mapped(m)' <=> Mapped(m)
           /\ DOMAIN areas \subseteq DOMAIN areas'
<1>1. CASE NotMapped(n)
  <2>1. CreateArea(n, FALSE) /\ pte' = pte
    BY <1>1 DEF NotMapped
  <2>2. holds' = [holds EXCEPT ![n] = created']
    BY <1>1, <2>1, CreateAreaIs DEF NotMapped
  <2>3. QED
    BY <2>1, <2>2, UnmappedIs
<1>2. CASE NoArea(n)
  <2>1. /\ holds' = [holds EXCEPT ![n] = None]
        /\ UNCHANGED <<areas, created, nextDev, pte>>
    BY <1>2 DEF NoArea
  <2>2. holds \in [Names -> AreaId \cup {None}]
    BY DEF Memory, MemoryType
  <2>3. /\ holds'[n] = None
        /\ \A m \in Names \ {n} : holds'[m] = holds[m]
        /\ holds' \in [Names -> AreaId \cup {None}]
    BY <2>1, <2>2
  <2>4. MemoryType'
    BY <2>1, <2>3 DEF Memory, MemoryType
  <2>5. \A m \in Names : Mapped(m)' <=> Mapped(m)
    BY <2>1, <2>3 DEF Mapped
  <2>6. AreasKept'
    <3>1. \A a \in DOMAIN areas : a <= created
      BY DEF Memory, AreasKept
    <3>2. \A m \in Names : holds'[m] # None =>
             holds'[m] \in DOMAIN areas /\ areas[holds'[m]].for = m
      BY <2>3, HoldsIs
    <3>3. ASSUME NEW a \in DOMAIN areas
          PROVE  \/ \E m \in Names : holds'[m] = a
                 \/ areas[a].for = VlcTable
                 \/ ~areas[a].mapped
      <4>1. \/ \E m \in Names : holds[m] = a
            \/ areas[a].for = VlcTable
            \/ ~areas[a].mapped
        BY DEF Memory, AreasKept
      <4>2. ASSUME holds[n] = a
            PROVE  ~areas[a].mapped
        BY <4>2, HoldsIs DEF Mapped
      <4>3. QED
        BY <2>3, <4>1, <4>2
    <3>4. QED
      BY <2>1, <3>1, <3>2, <3>3 DEF AreasKept
  <2>7. Space'
    <3>1. \A m \in Names : Mapped(m)' => holds'[m] = holds[m]
      BY <2>3 DEF Mapped
    <3>2. QED
      BY <2>1, <2>5, <3>1 DEF Memory, Space
  <2>8. QED
    BY <2>1, <2>3, <2>4, <2>5, <2>6, <2>7 DEF Memory
<1>3. QED
  BY <1>1, <1>2

(* The names whose variable a release of S clears.                         *)
Cleared(S) == S \cup (IF ReferenceCache \in S THEN {VlcTable} ELSE {})

(* The page tables stay, or they go and nothing stays mapped.              *)
TablesAfter(S) ==
    \/ UNCHANGED <<nextDev, pte>>
    \/ /\ nextDev' = DevBase
       /\ pte' = [d \in Dev |-> None]
       /\ \A n \in Names : Mapped(n) => n \in Cleared(S)

(* msvdx_free of S: what is cleared holds nothing, the rest is as it was.  *)
LEMMA ReleaseIs ==
    ASSUME Memory, NEW S \in SUBSET Names, Release(S), TablesAfter(S),
           UNCHANGED created
    PROVE  /\ Memory'
           /\ \A n \in Names : /\ n \in Cleared(S) => holds'[n] = None
                               /\ n \notin Cleared(S) => holds'[n] = holds[n]
           /\ \A n \in Names : Mapped(n)' <=> Mapped(n) /\ n \notin Cleared(S)
<1> DEFINE Gone == {holds[n] : n \in S}
<1>1. /\ DOMAIN areas' = DOMAIN areas \ Gone
      /\ \A a \in DOMAIN areas \ Gone : areas'[a] = areas[a]
  BY DEF Release, Restrict
<1>2. \A n \in Names : /\ n \in Cleared(S) => holds'[n] = None
                       /\ n \notin Cleared(S) => holds'[n] = holds[n]
  <2>1. VlcTable # ReferenceCache
    BY NamesDiffer
  <2>2. QED
    BY <2>1 DEF Release, Cleared
<1>3. DOMAIN holds' = Names /\ holds' = [n \in Names |-> holds'[n]]
  BY DEF Release
<1>4. \A n \in Names : holds'[n] \in AreaId \cup {None}
  BY <1>2, HoldsIs
<1>5. MemoryType'
  <2>1. nextDev' \in Dev /\ pte' \in [Dev -> AreaId \cup {None}]
    <3>1. DevBase \in Dev
      BY MemoryAssumption DEF DevBase, Dev
    <3>2. QED
      BY <3>1 DEF TablesAfter, Memory, MemoryType
  <2>2. QED
    BY <1>1, <1>3, <1>4, <2>1 DEF Memory, MemoryType
<1>6. ASSUME NEW n \in Names, holds'[n] # None
      PROVE  /\ n \notin Cleared(S) /\ holds'[n] = holds[n]
             /\ holds[n] \in DOMAIN areas /\ holds[n] \notin Gone
             /\ areas'[holds[n]] = areas[holds[n]]
  <2>1. n \notin Cleared(S) /\ holds'[n] = holds[n]
    BY <1>2, <1>6
  <2>2. n \notin S
    BY <2>1 DEF Cleared
  <2>3. holds[n] \notin Gone
    BY <1>6, <2>1, <2>2, HoldsIs
  <2>4. holds[n] \in DOMAIN areas
    BY <1>6, <2>1, HoldsIs
  <2>5. QED
    BY <1>1, <2>1, <2>3, <2>4
<1>7. \A n \in Names : Mapped(n)' <=> Mapped(n) /\ n \notin Cleared(S)
  <2>1. ASSUME NEW n \in Names, n \notin Cleared(S)
        PROVE  Mapped(n)' <=> Mapped(n)
    BY <1>2, <1>6, <2>1, KeepsArea
  <2>2. ASSUME NEW n \in Names, n \in Cleared(S)
        PROVE  ~Mapped(n)'
    BY <1>2, <2>2 DEF Mapped
  <2>3. QED
    BY <2>1, <2>2
<1>8. AreasKept'
  <2>1. \A a \in DOMAIN areas' : a <= created'
    BY <1>1 DEF Memory, AreasKept
  <2>2. \A n \in Names : holds'[n] # None =>
           holds'[n] \in DOMAIN areas' /\ areas'[holds'[n]].for = n
    BY <1>1, <1>6, HoldsIs
  <2>3. ASSUME NEW a \in DOMAIN areas'
        PROVE  \/ \E n \in Names : holds'[n] = a
               \/ areas'[a].for = VlcTable
               \/ ~areas'[a].mapped
    <3>1. a \in DOMAIN areas /\ a \notin Gone /\ areas'[a] = areas[a]
      BY <1>1
    <3>2. \/ \E n \in Names : holds[n] = a
          \/ areas[a].for = VlcTable
          \/ ~areas[a].mapped
      BY <3>1 DEF Memory, AreasKept
    <3>3. ASSUME NEW n \in Names, holds[n] = a
          PROVE  \/ \E m \in Names : holds'[m] = a
                 \/ areas'[a].for = VlcTable
      <4>1. n \notin S
        BY <3>1, <3>3
      <4>2. CASE n \notin Cleared(S)
        BY <1>2, <3>3, <4>2
      <4>3. CASE n = VlcTable
        <5>1. holds[n] # None
          BY <3>1, <3>3, HoldsIs
        <5>2. QED
          BY <3>1, <3>3, <4>3, <5>1, HoldsIs
      <4>4. QED
        BY <4>1, <4>2, <4>3 DEF Cleared
    <3>4. QED
      BY <3>1, <3>2, <3>3
  <2>4. QED
    BY <2>1, <2>2, <2>3 DEF AreasKept
<1>9. Space'
  <2>1. \A n \in Names : Mapped(n)' =>
           /\ Mapped(n) /\ holds'[n] = holds[n]
           /\ areas'[holds'[n]] = areas[holds[n]]
    BY <1>6, <1>7 DEF Mapped
  <2>2. CASE UNCHANGED <<nextDev, pte>>
    BY <2>1, <2>2 DEF Memory, Space
  <2>3. CASE /\ nextDev' = DevBase
             /\ pte' = [d \in Dev |-> None]
             /\ \A n \in Names : Mapped(n) => n \in Cleared(S)
    <3>1. nextDev' <= created' + 1
      BY <2>3 DEF DevBase, Memory, MemoryType
    <3>2. \A n \in Names : ~Mapped(n)'
      BY <1>7, <2>3
    <3>3. \A d \in Dev : pte'[d] = None
      BY <2>3
    <3>4. QED
      BY <3>1, <3>2, <3>3 DEF Space
  <2>4. QED
    BY <2>2, <2>3 DEF TablesAfter
<1>10. QED
  BY <1>2, <1>5, <1>7, <1>8, <1>9 DEF Memory

-----------------------------------------------------------------------------
(* What a step that leaves the memory alone leaves.                        *)
LEMMA MemoryStays ==
    ASSUME Memory, UNCHANGED <<holds, areas, created, nextDev, pte>>
    PROVE  Memory' /\ \A n : Mapped(n)' <=> Mapped(n)
BY DEF Memory, MemoryType, AreasKept, Space, Mapped

(* Nor does it change the phase.                                           *)
LEMMA PhaseStays ==
    ASSUME Phase, UNCHANGED <<pc, todo, holds, sized, areas>>
    PROVE  Phase'
<1>1. \A n : Mapped(n)' <=> Mapped(n)
  BY DEF Mapped
<1>2. Done' = Done /\ Unwound' = Unwound
  BY DEF Done, Unwound
<1>3. Lined => Lined'
  BY <1>2 DEF Lined
<1>4. /\ Between({}, {}) => Between({}, {})'
      /\ Between({Rendec}, {Rendec}) => Between({Rendec}, {Rendec})'
      /\ Between({}, {Rendec}) => Between({}, {Rendec})'
      /\ Between(Device, Device \cup {Cmdbuf}) =>
            Between(Device, Device \cup {Cmdbuf})'
      /\ Between(Device \cup Places(Total), Names) =>
            Between(Device \cup Places(Total), Names)'
  BY <1>1 DEF Between
<1>5. /\ Between(Device, Device \cup {Cmdbuf} \cup Unwound) =>
            Between(Device, Device \cup {Cmdbuf} \cup Unwound)'
      /\ Between(Device \cup Places(Done),
                 Device \cup {Cmdbuf} \cup Places(Done)) =>
            Between(Device \cup Places(Done),
                    Device \cup {Cmdbuf} \cup Places(Done))'
  BY <1>1, <1>2 DEF Between
<1>6. \A n \in Kept : holds'[n] # None => Mapped(n)'
  BY <1>1 DEF Phase
<1>7. QED
  BY <1>3, <1>4, <1>5, <1>6 DEF Phase

(* What waits when a configuration goes is there still, or left behind.    *)
LEMMA MessagesStayHolds ==
    ASSUME IInv, MessagesStay, pc \in {"open", "ready", "unwinding"},
           pc' \in {"open", "configuring"}
    PROVE  /\ Busy'
           /\ attached' \in BOOLEAN /\ pending' \in SUBSET AreaId
           /\ busy' \in SUBSET AreaId /\ late' \in BOOLEAN
           /\ left' \in SUBSET AreaId
<1>1. /\ attached' = FALSE /\ left' = left \cup (pending \ DOMAIN areas')
      /\ pending' = pending /\ busy' = busy /\ late' = late
  BY DEF MessagesStay
<1>2. ~late => busy = {}
  BY DEF IInv, Busy
<1>3. Busy'
  BY <1>1, <1>2 DEF IInv, Busy
<1>4. QED
  BY <1>1, <1>3 DEF IInv, ControlType

(* No kept buffer is disturbed if every one is as it was or holds nothing  *)
(* now.                                                                    *)
LEMMA KeptStay ==
    ASSUME Phase,
           \A n \in Kept :
               \/ holds'[n] = None
               \/ holds'[n] = holds[n] /\ (Mapped(n)' <=> Mapped(n))
    PROVE  \A n \in Kept : holds'[n] # None => Mapped(n)'
BY DEF Phase

(* What a release of the whole configuration clears: nothing before there  *)
(* is one, then all of it and the colocated buffers.                       *)
LEMMA ConfigurationIs ==
    ASSUME IInv, pc \in {"open", "ready"}
    PROVE  /\ Configuration \subseteq Places(Total) \cup AllColocated
           /\ pc = "open" => Cleared(Configuration) = {}
           /\ pc = "ready" =>
                 Cleared(Configuration) = Places(Total) \cup AllColocated
<1>1. Surfaces \in Nat
  BY MemoryAssumption
<1>2. CASE pc = "open"
  <2>1. sized = 0 /\ context = FALSE
    BY <1>2 DEF IInv, Counts
  <2>2. SurfacesUpTo(0) = {}
    BY DEF SurfacesUpTo
  <2>3. Configuration = {}
    BY <2>1, <2>2 DEF Configuration
  <2>4. QED
    BY <1>2, <2>3 DEF Cleared
<1>3. CASE pc = "ready"
  <2>1. sized = Surfaces /\ context = TRUE
    BY <1>3 DEF IInv, Counts
  <2>2. Configuration = ContextBuffers \cup SurfacesUpTo(Surfaces)
    BY <2>1 DEF Configuration
  <2>3. Places(Total) = SurfacesUpTo(Surfaces)
                            \cup {Preload, ReferenceCache, VlcTable}
    BY NamesAre DEF SurfacesUpTo
  <2>4. QED
    BY <1>3, <2>2, <2>3 DEF ContextBuffers, Cleared
<1>4. QED
  BY <1>2, <1>3

(* What there is while a configuration is allocated is what a failure      *)
(* releases.                                                               *)
LEMMA UnwoundIs ==
    ASSUME IInv
    PROVE  /\ Unwound \subseteq Places(Total) \cup AllColocated
           /\ pc = "configuring" => Places(Done) \subseteq Unwound
<1>1. Surfaces \in Nat /\ sized \in 0 .. Surfaces
  BY MemoryAssumption DEF IInv, ControlType
<1>2. SurfacesUpTo(sized) \subseteq {Surface(i) : i \in 1 .. Surfaces}
  BY <1>1 DEF SurfacesUpTo
<1>3. Unwound \subseteq Places(Total) \cup AllColocated
  BY <1>2, NamesAre DEF Unwound, ContextBuffers
<1>4. ASSUME pc = "configuring", NEW j \in 1 .. Done
      PROVE  Place(j) \in Unwound
  <2>1. /\ Len(todo) \in 1 .. Total
        /\ sized = IF Done <= Surfaces THEN Done ELSE Surfaces
    BY <1>4 DEF IInv, Phase, Lined, Counts
  <2>2. Done \in Nat /\ Done <= Surfaces + 2 /\ j \in 1 .. Total
    BY <1>1, <1>4, <2>1 DEF Done, Total
  <2>3. CASE j <= Surfaces
    <3>1. j \in 1 .. sized
      BY <1>1, <1>4, <2>1, <2>2, <2>3
    <3>2. Place(j) = Surface(j)
      BY <1>1, <2>2, <2>3, PlaceIs
    <3>3. QED
      BY <3>1, <3>2 DEF Unwound, SurfacesUpTo
  <2>4. CASE j > Surfaces
    <3>1. sized = Surfaces
      BY <1>1, <1>4, <2>1, <2>2, <2>4
    <3>2. Place(j) \in {Preload, ReferenceCache}
      BY <1>1, <1>4, <2>2, <2>4, PlaceIs
    <3>3. QED
      BY <3>1, <3>2 DEF Unwound, ContextBuffers
  <2>5. QED
    BY <1>1, <2>2, <2>3, <2>4
<1>5. QED
  BY <1>3, <1>4 DEF Places

(* Nothing to do.                                                          *)
LEMMA NothingTodo == << >> \in Seq(Names)
OBVIOUS

(* ... is no buffer.                                                       *)
LEMMA NothingLeft == Len(<< >>) = 0
OBVIOUS

-----------------------------------------------------------------------------
(* Nothing is held before the first open.                                  *)
LEMMA InitHolds == Init => IInv
<1> SUFFICES ASSUME Init PROVE IInv
  OBVIOUS
<1>1. DevBase \in Dev
  BY MemoryAssumption DEF DevBase, Dev
<1>2. DOMAIN areas = {}
  BY DEF Init
<1>3. \A n \in Names : holds[n] = None
  BY DEF Init
<1>4. MemoryType
  BY <1>1, <1>2, MemoryAssumption DEF Init, MemoryType
<1>5. AreasKept
  BY <1>2, <1>3 DEF AreasKept
<1>6. Space
  <2>1. nextDev <= created + 1
    BY DEF Init, DevBase
  <2>2. \A d \in Dev : pte[d] = None
    BY DEF Init
  <2>3. QED
    BY <1>3, <2>1, <2>2 DEF Space, Mapped
<1>7. ControlType
  <2>1. todo \in Seq(Names)
    BY NothingTodo DEF Init
  <2>2. sized \in 0 .. Surfaces
    BY MemoryAssumption DEF Init
  <2>3. QED
    BY <2>1, <2>2, Zenon DEF Init, ControlType
<1>8. Phase
  <2>1. \A n \in Kept : holds[n] = None
    BY <1>3, NamesAre
  <2>2. QED
    BY <1>3, <2>1 DEF Init, Phase, Between, Mapped
<1>9. Counts /\ Busy
  BY DEF Init, Counts, Busy
<1>10. QED
  BY <1>4, <1>5, <1>6, <1>7, <1>8, <1>9 DEF IInv, Memory

(* msvdx_decode_open begins with nothing mapped.                           *)
LEMMA OpenHolds == IInv /\ Open => IInv'
<1> SUFFICES ASSUME IInv, Open PROVE IInv'
  OBVIOUS
<1>1. /\ pc = "closed" /\ pc' = "opening" /\ todo' = <<Rendec, Bitstream>>
      /\ UNCHANGED <<holds, sized, context, areas, created, nextDev, pte,
                     attached, pending, busy, late, left>>
  BY DEF Open, memory, messages
<1>2. Memory' /\ \A n : Mapped(n)' <=> Mapped(n)
  BY <1>1, MemoryStays DEF IInv
<1>3. Between({}, {})
  BY <1>1 DEF IInv, Phase
<1>4. Between({}, {})'
  BY <1>2, <1>3 DEF Between
<1>5. ControlType'
  BY <1>1, NamesAre DEF IInv, ControlType
<1>6. Phase'
  <2>1. \A n \in Kept : holds'[n] # None => Mapped(n)'
    BY <1>1, <1>2, KeptStay DEF IInv
  <2>2. QED
    BY <1>1, <1>4, <2>1 DEF Phase
<1>7. Counts' /\ Busy'
  BY <1>1 DEF IInv, Counts, Busy
<1>8. QED
  BY <1>2, <1>5, <1>6, <1>7 DEF IInv

(* The buffers of open come one by one.                                    *)
LEMMA OpenAllocatesHolds == IInv /\ OpenAllocates => IInv'
<1> SUFFICES ASSUME IInv, OpenAllocates PROVE IInv'
  OBVIOUS
<1>1. /\ pc = "opening"
      /\ Allocates(Head(todo))
      /\ todo' = Tail(todo)
      /\ pc' = IF Tail(todo) = << >> THEN "open" ELSE "opening"
      /\ UNCHANGED <<sized, context, attached, pending, busy, late, left>>
  BY DEF OpenAllocates, messages
<1>2. Rendec \in Names /\ Bitstream \in Names /\ Rendec # Bitstream
  BY NamesAre, NamesDiffer
<1>3. Rendec \notin Kept /\ Bitstream \notin Kept /\ Kept \subseteq Names
  BY NamesAre, NamesDiffer DEF Device
<1>4. Memory
  BY DEF IInv
<1>5. CASE todo = <<Rendec, Bitstream>> /\ Between({}, {})
  <2>1. Allocates(Rendec) /\ todo' = <<Bitstream>> /\ pc' = "opening"
    BY <1>1, <1>5
  <2>2. \A n \in Names : ~Mapped(n)
    BY <1>5 DEF Between
  <2>3. /\ Memory' /\ Mapped(Rendec)'
        /\ \A n \in Names \ {Rendec} : /\ holds'[n] = holds[n]
                                       /\ Mapped(n)' <=> Mapped(n)
        /\ DOMAIN areas \subseteq DOMAIN areas'
    BY <1>2, <1>4, <2>1, <2>2, AllocatesIs
  <2>4. Between({Rendec}, {Rendec})'
    BY <2>2, <2>3 DEF Between
  <2>5. \A n \in Kept : holds'[n] # None => Mapped(n)'
    BY <1>3, <2>3, KeptStay DEF IInv
  <2>6. Phase'
    BY <2>1, <2>4, <2>5 DEF Phase
  <2>7. ControlType'
    BY <1>1, <1>2, <2>1 DEF IInv, ControlType
  <2>8. Counts' /\ Busy'
    BY <1>1, <2>1, <2>3 DEF IInv, Counts, Busy
  <2>9. QED
    BY <2>3, <2>6, <2>7, <2>8 DEF IInv
<1>6. CASE todo = <<Bitstream>> /\ Between({Rendec}, {Rendec})
  <2>1. Allocates(Bitstream) /\ todo' = << >> /\ pc' = "open"
    BY <1>1, <1>6
  <2>2. ~Mapped(Bitstream) /\ Mapped(Rendec)
    BY <1>2, <1>6 DEF Between
  <2>3. /\ Memory' /\ Mapped(Bitstream)'
        /\ \A n \in Names \ {Bitstream} : /\ holds'[n] = holds[n]
                                          /\ Mapped(n)' <=> Mapped(n)
        /\ DOMAIN areas \subseteq DOMAIN areas'
    BY <1>2, <1>4, <2>1, <2>2, AllocatesIs
  <2>4. Mapped(Rendec)'
    BY <1>2, <2>2, <2>3
  <2>5. \A n \in Names : Mapped(n)' => n \in Device
    BY <1>6, <2>3 DEF Between, Device
  <2>6. Between(Device, Device \cup {Cmdbuf})'
    BY <2>3, <2>4, <2>5 DEF Between, Device
  <2>7. \A n \in Kept : holds'[n] # None => Mapped(n)'
    BY <1>3, <2>3, KeptStay DEF IInv
  <2>8. Phase'
    BY <2>1, <2>6, <2>7 DEF Phase
  <2>9. ControlType'
    <3>1. todo' \in Seq(Names)
      BY <2>1, NothingTodo
    <3>2. QED
      BY <1>1, <2>1, <3>1 DEF IInv, ControlType
  <2>10. Counts' /\ Busy'
    BY <1>1, <2>1, <2>3 DEF IInv, Counts, Busy
  <2>11. QED
    BY <2>3, <2>8, <2>9, <2>10 DEF IInv
<1>7. QED
  BY <1>1, <1>5, <1>6 DEF IInv, Phase

(* A failed open leaves at most RENDEC to msvdx_close.                     *)
LEMMA OpenFailsHolds == IInv /\ OpenFails => IInv'
<1> SUFFICES ASSUME IInv, OpenFails PROVE IInv'
  OBVIOUS
<1>1. /\ pc = "opening"
      /\ NoArea(Head(todo)) \/ NotMapped(Head(todo))
      /\ todo' = << >>
      /\ pc' = "stopping"
      /\ UNCHANGED <<sized, context, attached, pending, busy, late, left>>
  BY DEF OpenFails, messages
<1>2. Rendec \in Names /\ Bitstream \in Names /\ Rendec # Bitstream
  BY NamesAre, NamesDiffer
<1>3. Head(todo) \in Device /\ ~Mapped(Head(todo))
  <2>1. CASE todo = <<Rendec, Bitstream>> /\ Between({}, {})
    BY <1>2, <2>1 DEF Between, Device
  <2>2. CASE todo = <<Bitstream>> /\ Between({Rendec}, {Rendec})
    BY <1>2, <2>2 DEF Between, Device
  <2>3. QED
    BY <1>1, <2>1, <2>2 DEF IInv, Phase
<1>4. Head(todo) \in Names /\ Head(todo) \notin Kept /\ Kept \subseteq Names
  BY <1>3, NamesAre, NamesDiffer DEF Device
<1>5. /\ Memory'
      /\ \A n \in Names \ {Head(todo)} : holds'[n] = holds[n]
      /\ \A n \in Names : Mapped(n)' <=> Mapped(n)
      /\ DOMAIN areas \subseteq DOMAIN areas'
  BY <1>1, <1>3, <1>4, AllocFailsIs DEF IInv
<1>6. Between({}, {Rendec})'
  BY <1>1, <1>5 DEF IInv, Phase, Between
<1>7. \A n \in Kept : holds'[n] # None => Mapped(n)'
  BY <1>4, <1>5, KeptStay DEF IInv
<1>8. Phase'
  BY <1>1, <1>6, <1>7 DEF Phase
<1>9. ControlType'
  BY <1>1 DEF IInv, ControlType
<1>10. Counts' /\ Busy'
  BY <1>1, <1>5 DEF IInv, Counts, Busy
<1>11. QED
  BY <1>5, <1>8, <1>9, <1>10 DEF IInv

(* A configuration begins with the device's buffers and nothing of the     *)
(* one before.                                                             *)
LEMMA ConfigureHolds == IInv /\ Configure => IInv'
<1> SUFFICES ASSUME IInv, Configure PROVE IInv'
  OBVIOUS
<1> DEFINE order == surfaceNames \o <<Preload, ReferenceCache, VlcTable>>
<1>1. /\ pc \in {"open", "ready"} /\ pc' = "configuring"
      /\ Release(Configuration)
      /\ sized' = 0 /\ context' = FALSE
      /\ todo' = order
      /\ MessagesStay
      /\ UNCHANGED <<created, nextDev, pte>>
  BY DEF Configure
<1>2. Surfaces \in Nat
  BY MemoryAssumption
<1>3. /\ order \in Seq(Names)
      /\ Len(order) = Total
      /\ \A j \in 1 .. Total : order[j] = Place(j)
  <2>1. /\ surfaceNames \in Seq(Names) /\ Len(surfaceNames) = Surfaces
        /\ \A j \in 1 .. Surfaces : surfaceNames[j] = Surface(j)
    BY <1>2, NamesAre DEF surfaceNames, Surface
  <2>2. <<Preload, ReferenceCache, VlcTable>> \in Seq(Names)
    BY NamesAre
  <2>3. order \in Seq(Names) /\ Len(order) = Total
    BY <1>2, <2>1, <2>2 DEF Total
  <2>4. ASSUME NEW j \in 1 .. Total
        PROVE  order[j] = Place(j)
    <3>1. CASE j <= Surfaces
      BY <1>2, <2>1, <2>2, <3>1 DEF Place, Total
    <3>2. CASE j = Surfaces + 1
      BY <1>2, <2>1, <2>2, <3>2 DEF Place, Total
    <3>3. CASE j = Surfaces + 2
      BY <1>2, <2>1, <2>2, <3>3 DEF Place, Total
    <3>4. CASE j = Surfaces + 3
      BY <1>2, <2>1, <2>2, <3>4 DEF Place, Total
    <3>5. \/ j <= Surfaces \/ j = Surfaces + 1
          \/ j = Surfaces + 2 \/ j = Surfaces + 3
      BY <1>2 DEF Total
    <3>6. QED
      BY <3>1, <3>2, <3>3, <3>4, <3>5
  <2>5. QED
    BY <2>3, <2>4
<1>4. Configuration \in SUBSET Names
  BY <1>1, ConfigurationIs, NamesAre DEF Kept
<1>5. TablesAfter(Configuration)
  BY <1>1 DEF TablesAfter
<1>6. /\ Memory'
      /\ \A n \in Names :
            /\ n \in Cleared(Configuration) => holds'[n] = None
            /\ n \notin Cleared(Configuration) => holds'[n] = holds[n]
      /\ \A n \in Names :
            Mapped(n)' <=> Mapped(n) /\ n \notin Cleared(Configuration)
  BY <1>1, <1>4, <1>5, ReleaseIs DEF IInv
<1>7. Cleared(Configuration) \cap Device = {}
  BY <1>1, ConfigurationIs, NamesDiffer DEF Kept
<1>8. \A n \in Device : Mapped(n)
  BY <1>1 DEF IInv, Phase, Between
<1>9. \A n \in Device : Mapped(n)'
  BY <1>6, <1>7, <1>8, NamesAre DEF Device
<1>10. \A n \in Names : Mapped(n)' => n \in Device \cup {Cmdbuf}
  <2>1. CASE pc = "open"
    BY <1>6, <2>1 DEF IInv, Phase, Between
  <2>2. CASE pc = "ready"
    BY <1>6, <2>2, ConfigurationIs, NamesAre DEF Kept
  <2>3. QED
    BY <1>1, <2>1, <2>2
<1>11. Done' = 0 /\ Places(0) = {}
  BY <1>1, <1>2, <1>3 DEF Done, Places, Total
<1>12. Phase'
  <2>1. Places(Done') = {}
    BY <1>11
  <2>2. Lined'
    <3>1. Total \in 1 .. Total /\ Total \in Nat
      BY <1>2 DEF Total
    <3>2. QED
      BY <1>1, <1>3, <1>11, <3>1 DEF Lined
  <2>3. Between(Device \cup Places(Done),
                Device \cup {Cmdbuf} \cup Places(Done))'
    BY <1>9, <1>10, <2>1 DEF Between
  <2>4. \A n \in Kept : holds'[n] # None => Mapped(n)'
    BY <1>6, KeptStay, NamesAre DEF IInv
  <2>5. QED
    BY <1>1, <2>2, <2>3, <2>4 DEF Phase
<1>13. ControlType'
  <2>1. todo' \in Seq(Names) /\ sized' \in 0 .. Surfaces
    BY <1>1, <1>2, <1>3
  <2>2. QED
    BY <1>1, <2>1, MessagesStayHolds DEF IInv, ControlType
<1>14. Counts'
  BY <1>1, <1>2, <1>11 DEF Counts
<1>15. Busy'
  BY <1>1, MessagesStayHolds
<1>16. QED
  BY <1>6, <1>12, <1>13, <1>14, <1>15 DEF IInv

(* The next buffer of a configuration is the next place, not mapped yet.   *)
LEMMA NextPlace ==
    ASSUME IInv, pc = "configuring"
    PROVE  /\ Done \in 0 .. Total - 1
           /\ Head(todo) = Place(Done + 1)
           /\ Head(todo) \in Names /\ ~Mapped(Head(todo))
           /\ Head(todo) \notin Device \cup Kept
           /\ Tail(todo) \in Seq(Names)
           /\ Len(Tail(todo)) = Len(todo) - 1
           /\ \A j \in 1 .. Len(todo) - 1 :
                 Tail(todo)[j] = Place(Done + 1 + j)
<1>1. Total \in Nat
  BY MemoryAssumption DEF Total
<1>2. /\ todo \in Seq(Names)
      /\ Len(todo) \in 1 .. Total
      /\ \A j \in 1 .. Len(todo) : todo[j] = Place(Done + j)
      /\ Between(Device \cup Places(Done),
                 Device \cup {Cmdbuf} \cup Places(Done))
  BY DEF IInv, ControlType, Phase, Lined
<1>3. Done \in 0 .. Total - 1 /\ Done \in Nat
  BY <1>1, <1>2 DEF Done
<1>4. Head(todo) = Place(Done + 1)
  BY <1>1, <1>2
<1>5. /\ Tail(todo) \in Seq(Names)
      /\ Len(Tail(todo)) = Len(todo) - 1
      /\ \A j \in 1 .. Len(todo) - 1 : Tail(todo)[j] = todo[j + 1]
  BY <1>1, <1>2
<1>6. \A j \in 1 .. Len(todo) - 1 : Tail(todo)[j] = Place(Done + 1 + j)
  <2>1. ASSUME NEW j \in 1 .. Len(todo) - 1
        PROVE  Tail(todo)[j] = Place(Done + 1 + j)
    <3>1. j + 1 \in 1 .. Len(todo) /\ Done + (j + 1) = Done + 1 + j
      BY <1>1, <1>2, <1>3
    <3>2. QED
      BY <1>2, <1>5, <3>1
  <2>2. QED
    BY <2>1
<1>7. /\ Place(Done + 1) \notin Places(Done)
      /\ Place(Done + 1) \in Names
  BY <1>3, OnePlaceMore
<1>8. Place(Done + 1) \notin Device \cup Kept
  <2>1. Place(Done + 1) \in Places(Total)
    <3>1. Done + 1 \in 1 .. Total
      BY <1>1, <1>3
    <3>2. QED
      BY <3>1 DEF Places
  <2>2. QED
    BY <2>1, NamesDiffer
<1>9. ~Mapped(Place(Done + 1))
  BY <1>2, <1>7, <1>8 DEF Between, Kept
<1>10. QED
  BY <1>3, <1>4, <1>5, <1>6, <1>7, <1>8, <1>9

(* One more buffer of the configuration is there.                          *)
LEMMA ConfigureAllocatesHolds == IInv /\ ConfigureAllocates => IInv'
<1> SUFFICES ASSUME IInv, ConfigureAllocates PROVE IInv'
  OBVIOUS
<1>0. PICK n \in Names : n = Head(todo)
  BY NextPlace DEF ConfigureAllocates
<1>1. /\ pc = "configuring"
      /\ Allocates(n)
      /\ todo' = Tail(todo)
      /\ sized' = IF n \in Range(surfaceNames) THEN sized + 1 ELSE sized
      /\ IF Tail(todo) = << >> THEN pc' = "ready" /\ context' = TRUE
         ELSE pc' = pc /\ context' = context
      /\ UNCHANGED <<attached, pending, busy, late, left>>
  BY <1>0 DEF ConfigureAllocates, messages
<1>2. /\ Done \in 0 .. Total - 1
      /\ n = Place(Done + 1)
      /\ n \in Names /\ ~Mapped(n) /\ n \notin Device \cup Kept
      /\ Tail(todo) \in Seq(Names)
      /\ Len(Tail(todo)) = Len(todo) - 1
      /\ \A j \in 1 .. Len(todo) - 1 : Tail(todo)[j] = Place(Done + 1 + j)
  BY <1>0, <1>1, NextPlace
<1>3. /\ Memory' /\ Mapped(n)'
      /\ \A m \in Names \ {n} : /\ holds'[m] = holds[m]
                                /\ Mapped(m)' <=> Mapped(m)
      /\ DOMAIN areas \subseteq DOMAIN areas'
  BY <1>1, <1>2, AllocatesIs DEF IInv
<1>4. Total \in Nat /\ Surfaces \in Nat /\ Len(todo) \in 1 .. Total
      /\ Total = Surfaces + 3
  BY <1>1, MemoryAssumption DEF Total, IInv, Phase, Lined
<1>5. /\ Places(Done + 1) = Places(Done) \cup {n}
      /\ n \in Range(surfaceNames) <=> Done < Surfaces
      /\ Places(Done) \subseteq Names
  BY <1>2, OnePlaceMore
<1>6. Done' = Done + 1
  BY <1>1, <1>2, <1>4 DEF Done
<1>7. Between(Device \cup Places(Done),
              Device \cup {Cmdbuf} \cup Places(Done))
  BY <1>1 DEF IInv, Phase
<1>8. /\ \A m \in Device \cup Places(Done + 1) : Mapped(m)'
      /\ \A m \in Names : Mapped(m)' =>
            m \in Device \cup {Cmdbuf} \cup Places(Done + 1)
  <2>1. \A m \in Device \cup Places(Done) : m \in Names
    BY <1>5, NamesAre DEF Device
  <2>2. QED
    BY <1>3, <1>5, <1>7, <2>1 DEF Between
<1>9. \A m \in Kept : holds'[m] # None => Mapped(m)'
  BY <1>2, <1>3, KeptStay, NamesAre DEF IInv
<1>10. sized = IF Done <= Surfaces THEN Done ELSE Surfaces
  BY <1>1 DEF IInv, Counts
<1>11. sized' = IF Done + 1 <= Surfaces THEN Done + 1 ELSE Surfaces
  BY <1>1, <1>2, <1>4, <1>5, <1>10
<1>12. sized' \in 0 .. Surfaces
  BY <1>2, <1>4, <1>11
<1>13. CASE Tail(todo) = << >>
  <2>1. pc' = "ready" /\ context' = TRUE
    BY <1>1, <1>13
  <2>2. Done + 1 = Total
    <3>1. Len(Tail(todo)) = 0
      BY <1>13, NothingLeft
    <3>2. Len(Tail(todo)) = Len(todo) - 1
      BY <1>2
    <3>3. Len(todo) \in Nat
      BY <1>4
    <3>4. Len(todo) = 1
      BY <3>1, <3>2, <3>3
    <3>5. QED
      BY <1>4, <3>4 DEF Done
  <2>3. Between(Device \cup Places(Total), Names)'
    BY <1>8, <2>2 DEF Between
  <2>4. Phase'
    BY <1>9, <2>1, <2>3 DEF Phase
  <2>5. sized' = Surfaces
    BY <1>4, <1>11, <2>2
  <2>6. ControlType'
    BY <1>1, <1>2, <1>12, <2>1 DEF IInv, ControlType
  <2>7. Counts' /\ Busy'
    BY <1>1, <1>3, <2>1, <2>5 DEF IInv, Counts, Busy
  <2>8. QED
    BY <1>3, <2>4, <2>6, <2>7 DEF IInv
<1>14. CASE Tail(todo) # << >>
  <2>1. pc' = "configuring" /\ context' = context
    BY <1>1, <1>14
  <2>2. Len(todo') \in 1 .. Total
    BY <1>1, <1>2, <1>4, <1>14
  <2>3. Lined'
    BY <1>1, <1>2, <1>6, <2>2 DEF Lined
  <2>4. Between(Device \cup Places(Done),
                Device \cup {Cmdbuf} \cup Places(Done))'
    BY <1>6, <1>8 DEF Between
  <2>5. Phase'
    BY <1>9, <2>1, <2>3, <2>4 DEF Phase
  <2>6. ControlType'
    BY <1>1, <1>2, <1>12, <2>1 DEF IInv, ControlType
  <2>7. Counts'
    BY <1>1, <1>6, <1>11, <2>1 DEF IInv, Counts
  <2>8. Busy'
    BY <1>1, <1>3, <2>1 DEF IInv, Busy
  <2>9. QED
    BY <1>3, <2>5, <2>6, <2>7, <2>8 DEF IInv
<1>15. QED
  BY <1>13, <1>14

(* A configuration that fails leaves at most what Unwound names.           *)
LEMMA ConfigureFailsHolds == IInv /\ ConfigureFails => IInv'
<1> SUFFICES ASSUME IInv, ConfigureFails PROVE IInv'
  OBVIOUS
<1> DEFINE n == Head(todo)
<1>1. /\ pc = "configuring"
      /\ NoArea(n) \/ NotMapped(n)
      /\ todo' = << >> /\ pc' = "unwinding"
      /\ UNCHANGED <<sized, context, attached, pending, busy, late, left>>
  BY DEF ConfigureFails, messages
<1>2. n \in Names /\ ~Mapped(n) /\ n \notin Device \cup Kept
  BY <1>1, NextPlace
<1>3. /\ Memory'
      /\ \A m \in Names \ {n} : holds'[m] = holds[m]
      /\ \A m \in Names : Mapped(m)' <=> Mapped(m)
      /\ DOMAIN areas \subseteq DOMAIN areas'
  BY <1>1, <1>2, AllocFailsIs DEF IInv
<1>4. /\ \A m \in Device : Mapped(m)
      /\ \A m \in Names : Mapped(m) => m \in Device \cup {Cmdbuf} \cup Unwound
  BY <1>1, UnwoundIs DEF IInv, Phase, Between
<1>5. Unwound' = Unwound
  BY <1>1 DEF Unwound
<1>6. Between(Device, Device \cup {Cmdbuf} \cup Unwound)'
  <2>1. Device \subseteq Names
    BY NamesAre
  <2>2. QED
    BY <1>3, <1>4, <1>5, <2>1 DEF Between
<1>7. \A m \in Kept : holds'[m] # None => Mapped(m)'
  BY <1>2, <1>3, KeptStay, NamesAre DEF IInv
<1>8. Phase'
  BY <1>1, <1>6, <1>7 DEF Phase
<1>9. ControlType'
  BY <1>1, NothingTodo DEF IInv, ControlType
<1>10. Counts' /\ Busy'
  BY <1>1, <1>3 DEF IInv, Counts, Busy
<1>11. QED
  BY <1>3, <1>8, <1>9, <1>10 DEF IInv

(* After a failure the device's buffers are there, and perhaps the command *)
(* buffer.                                                                 *)
LEMMA UnwindHolds == IInv /\ Unwind => IInv'
<1> SUFFICES ASSUME IInv, Unwind PROVE IInv'
  OBVIOUS
<1>1. /\ pc = "unwinding" /\ pc' = "open"
      /\ Release(Unwound)
      /\ sized' = 0
      /\ MessagesStay
      /\ UNCHANGED <<todo, context, created, nextDev, pte>>
  BY DEF Unwind
<1>2. Unwound \in SUBSET Names /\ TablesAfter(Unwound)
  BY <1>1, UnwoundIs, NamesAre DEF Kept, TablesAfter
<1>3. /\ Memory'
      /\ \A n \in Names : /\ n \in Cleared(Unwound) => holds'[n] = None
                          /\ n \notin Cleared(Unwound) => holds'[n] = holds[n]
      /\ \A n \in Names : Mapped(n)' <=> Mapped(n) /\ n \notin Cleared(Unwound)
  BY <1>1, <1>2, ReleaseIs DEF IInv
<1>4. Unwound \subseteq Cleared(Unwound) /\ Cleared(Unwound) \cap Device = {}
  <2>1. VlcTable \in Places(Total)
    BY NamesAre
  <2>2. QED
    BY <2>1, UnwoundIs, NamesDiffer DEF Cleared, Kept
<1>5. Between(Device, Device \cup {Cmdbuf} \cup Unwound)
  BY <1>1 DEF IInv, Phase
<1>6. Between(Device, Device \cup {Cmdbuf})'
  <2>1. Device \subseteq Names
    BY NamesAre
  <2>2. QED
    BY <1>3, <1>4, <1>5, <2>1 DEF Between
<1>7. \A n \in Kept : holds'[n] # None => Mapped(n)'
  BY <1>3, KeptStay, NamesAre DEF IInv
<1>8. Phase'
  BY <1>1, <1>6, <1>7 DEF Phase
<1>9. ControlType'
  <2>1. sized' \in 0 .. Surfaces
    BY <1>1, MemoryAssumption
  <2>2. QED
    BY <1>1, <2>1, MessagesStayHolds DEF IInv, ControlType
<1>10. Counts' /\ Busy'
  BY <1>1, MessagesStayHolds DEF IInv, Counts
<1>11. QED
  BY <1>3, <1>8, <1>9, <1>10 DEF IInv

-----------------------------------------------------------------------------
(* A picture's own buffers: only a kept one may still be missing.          *)
LEMMA NeededIs ==
    ASSUME IInv, pc = "ready", NEW i \in 1 .. Surfaces
    PROVE  /\ Needed(i) \in Kept
           /\ Needed(i) \in Names /\ Colocated(i) \in Kept
           /\ \A n \in Device \cup Places(Total) : n \in Names /\ n \notin Kept
           /\ \A n \in Device \cup Places(Total) : Mapped(n)
<1>1. Colocated(i) \in Kept
  BY NamesAre DEF Kept
<1>2. Needed(i) \in Kept
  BY <1>1 DEF Needed, Kept
<1>3. \A n \in Device \cup Places(Total) : n \in Names /\ n \notin Kept
  BY NamesAre, NamesDiffer
<1>4. \A n \in Device \cup Places(Total) : Mapped(n)
  BY DEF IInv, Phase, Between
<1>5. QED
  BY <1>1, <1>2, <1>3, <1>4, NamesAre

(* A picture gets a buffer it needs.                                       *)
LEMMA BeginHolds ==
    ASSUME IInv, NEW i \in 1 .. Surfaces, Begin(i)
    PROVE  IInv'
<1>1. /\ pc = "ready" /\ holds[Needed(i)] = None /\ Allocates(Needed(i))
      /\ UNCHANGED <<pc, todo, sized, context, attached, pending, busy, late,
                     left>>
  BY DEF Begin, messages
<1>2. PICK n \in Kept : n = Needed(i)
  BY <1>1, NeededIs
<1>3. n \in Names /\ ~Mapped(n) /\ Allocates(n)
  BY <1>1, <1>2, NamesAre DEF Mapped
<1>4. /\ Memory' /\ Mapped(n)'
      /\ \A m \in Names \ {n} : /\ holds'[m] = holds[m]
                                /\ Mapped(m)' <=> Mapped(m)
      /\ DOMAIN areas \subseteq DOMAIN areas'
  BY <1>3, AllocatesIs DEF IInv
<1>5. Between(Device \cup Places(Total), Names)'
  BY <1>1, <1>2, <1>4, NeededIs DEF Between
<1>6. \A m \in Kept : holds'[m] # None => Mapped(m)'
  BY <1>4, NamesAre DEF IInv, Phase
<1>7. Phase'
  BY <1>1, <1>5, <1>6 DEF Phase
<1>8. ControlType'
  BY <1>1 DEF IInv, ControlType
<1>9. Counts' /\ Busy'
  BY <1>1, <1>4 DEF IInv, Counts, Busy
<1>10. QED
  BY <1>4, <1>7, <1>8, <1>9 DEF IInv

(* A colocated buffer that could not be mapped is lost at once.            *)
LEMMA BeginFailsHolds ==
    ASSUME IInv, NEW i \in 1 .. Surfaces, BeginFails(i)
    PROVE  IInv'
<1>1. /\ pc = "ready" /\ holds[Colocated(i)] = None
      /\ CreateArea(Colocated(i), FALSE)
      /\ UNCHANGED <<pc, todo, holds, sized, context, pte, attached, pending,
                     busy, late, left>>
  BY DEF BeginFails, messages
<1>2. Colocated(i) \in Names /\ ~Mapped(Colocated(i))
  BY <1>1, NamesAre DEF Mapped
<1>3. /\ Memory'
      /\ \A m \in Names : Mapped(m)' <=> Mapped(m)
      /\ DOMAIN areas \subseteq DOMAIN areas'
  BY <1>1, <1>2, UnmappedIs DEF IInv
<1>4. Between(Device \cup Places(Total), Names)'
  BY <1>1, <1>3, NeededIs DEF Between
<1>5. \A m \in Kept : holds'[m] # None => Mapped(m)'
  BY <1>1, <1>3, KeptStay, NamesAre DEF IInv
<1>6. Phase'
  BY <1>1, <1>4, <1>5 DEF Phase
<1>7. ControlType'
  BY <1>1 DEF IInv, ControlType
<1>8. Counts' /\ Busy'
  BY <1>1, <1>3 DEF IInv, Counts, Busy
<1>9. QED
  BY <1>3, <1>6, <1>7, <1>8 DEF IInv

(* What a slice's message points at is there.                              *)
LEMMA TouchesAre ==
    ASSUME IInv, NEW i \in 1 .. Surfaces, pc = "ready",
           holds[Needed(i)] # None
    PROVE  Touches(i) \subseteq DOMAIN areas /\ Touches(i) \subseteq AreaId
<1>1. holds[Colocated(i)] # None /\ holds[Cmdbuf] # None
  BY DEF Needed
<1>2. Surface(i) \in Places(Total) /\ Colocated(i) \in Names
  BY NamesAre
<1>3. \A n \in {Rendec, Bitstream, Preload, ReferenceCache, VlcTable,
                Surface(i)} : n \in Device \cup Places(Total)
  BY <1>2, NamesAre DEF Device
<1>4. \A n \in {Rendec, Bitstream, Preload, ReferenceCache, VlcTable,
                Surface(i)} : n \in Names /\ holds[n] # None
  BY <1>3, NeededIs DEF Mapped
<1>5. Touches(i) \subseteq DOMAIN areas
  BY <1>1, <1>2, <1>4, HoldsIs, NamesAre DEF IInv, Touches
<1>6. QED
  BY <1>5 DEF IInv, Memory, MemoryType

(* A message that waits disturbs nothing.                                  *)
LEMMA SliceWaitsHolds ==
    ASSUME IInv, NEW i \in 1 .. Surfaces, SliceWaits(i)
    PROVE  IInv'
<1>1. /\ pc = "ready" /\ holds[Needed(i)] # None
      /\ pending' = pending \cup Touches(i)
      /\ attached' = TRUE
      /\ UNCHANGED <<pc, todo, sized, context, holds, areas, created, nextDev,
                     pte, busy, late, left>>
  BY DEF SliceWaits, memory
<1>2. Touches(i) \subseteq DOMAIN areas /\ Touches(i) \subseteq AreaId
  BY <1>1, TouchesAre
<1>3. Memory'
  BY <1>1, MemoryStays DEF IInv
<1>4. Phase'
  BY <1>1, PhaseStays DEF IInv
<1>5. ControlType'
  BY <1>1, <1>2 DEF IInv, ControlType
<1>6. Counts'
  BY <1>1 DEF IInv, Counts
<1>7. Busy'
  BY <1>1, <1>2 DEF IInv, Busy
<1>8. QED
  BY <1>3, <1>4, <1>5, <1>6, <1>7 DEF IInv

(* What is sent was waiting, and what waits then is there.                 *)
LEMMA FlushesHolds ==
    ASSUME IInv, pc = "ready", Flushes, NEW S \in SUBSET AreaId,
           S \subseteq DOMAIN areas, pending' = S
    PROVE  IInv'
<1>1. /\ pc' = "picture" /\ attached' = FALSE
      /\ busy' = busy \cup pending
      /\ UNCHANGED <<todo, sized, context, holds, areas, created, nextDev,
                     pte, late, left>>
  BY DEF Flushes, memory
<1>2. Memory' /\ \A n : Mapped(n)' <=> Mapped(n)
  BY <1>1, MemoryStays DEF IInv
<1>3. Phase'
  <2>1. Between(Device \cup Places(Total), Names)
    BY DEF IInv, Phase
  <2>2. Between(Device \cup Places(Total), Names)'
    BY <1>2, <2>1 DEF Between
  <2>3. \A n \in Kept : holds'[n] # None => Mapped(n)'
    BY <1>1, <1>2, KeptStay DEF IInv
  <2>4. QED
    BY <1>1, <2>2, <2>3 DEF Phase
<1>4. ControlType'
  BY <1>1 DEF IInv, ControlType
<1>5. Counts'
  BY <1>1 DEF IInv, Counts
<1>6. Busy'
  BY <1>1 DEF IInv, Busy
<1>7. QED
  BY <1>2, <1>3, <1>4, <1>5, <1>6 DEF IInv

(* A submit that finds the batch full, and end(), flush.                   *)
LEMMA SliceFlushesHolds ==
    ASSUME IInv, NEW i \in 1 .. Surfaces, SliceFlushes(i)
    PROVE  IInv'
<1>1. /\ pc = "ready" /\ holds[Needed(i)] # None /\ Flushes
      /\ pending' = Touches(i)
  BY DEF SliceFlushes
<1>2. Touches(i) \subseteq DOMAIN areas /\ Touches(i) \subseteq AreaId
  BY <1>1, TouchesAre
<1>3. QED
  BY <1>1, <1>2, FlushesHolds

LEMMA EndSendsHolds == IInv /\ EndSends => IInv'
BY FlushesHolds DEF EndSends

(* end() returns, or the MTX finishes: memory stays as it is.              *)
LEMMA PictureHolds == IInv /\ (EndReturns \/ MtxFinishes) => IInv'
<1> SUFFICES ASSUME IInv, EndReturns \/ MtxFinishes PROVE IInv'
  OBVIOUS
<1>1. UNCHANGED <<todo, holds, sized, context, areas, created, nextDev, pte,
                  attached, pending, left>>
  BY DEF EndReturns, MtxFinishes, memory
<1>2. Memory' /\ \A n : Mapped(n)' <=> Mapped(n)
  BY <1>1, MemoryStays DEF IInv
<1>3. \A n \in Kept : holds'[n] # None => Mapped(n)'
  BY <1>1, <1>2, KeptStay DEF IInv
<1>4. CASE EndReturns
  <2>1. /\ pc = "picture" /\ pc' = "ready"
        /\ late' = (busy # {}) /\ busy' = busy
    BY <1>4 DEF EndReturns
  <2>2. Between(Device \cup Places(Total), Names)
    BY <2>1 DEF IInv, Phase
  <2>3. Between(Device \cup Places(Total), Names)'
    BY <1>2, <2>2 DEF Between
  <2>4. Phase'
    BY <1>3, <2>1, <2>3 DEF Phase
  <2>5. late' \in BOOLEAN
    BY <2>1
  <2>6. ControlType'
    BY <1>1, <2>1, <2>5 DEF IInv, ControlType
  <2>7. Counts'
    BY <1>1, <2>1 DEF IInv, Counts
  <2>8. Busy'
    <3>1. pending \ left \subseteq DOMAIN areas
      BY DEF IInv, Busy
    <3>2. ~late' => busy' = {}
      BY <2>1
    <3>3. busy' # {} => late'
      BY <2>1
    <3>4. QED
      BY <1>1, <2>1, <3>1, <3>2, <3>3 DEF Busy
  <2>9. QED
    BY <1>2, <2>4, <2>6, <2>7, <2>8 DEF IInv
<1>5. CASE MtxFinishes
  <2>1. pc' = pc /\ busy' = {} /\ late' = FALSE
    BY <1>5 DEF MtxFinishes
  <2>2. /\ Done' = Done /\ Lined' = Lined /\ Unwound' = Unwound
        /\ Places(Done') = Places(Done)
    BY <1>1 DEF Done, Lined, Unwound
  <2>3. Phase'
    BY <1>1, <2>1, PhaseStays DEF IInv
  <2>4. ControlType'
    BY <1>1, <2>1 DEF IInv, ControlType
  <2>5. Counts'
    BY <1>1, <2>1, <2>2 DEF IInv, Counts
  <2>6. Busy'
    BY <1>1, <2>1 DEF IInv, Busy
  <2>7. QED
    BY <1>2, <2>3, <2>4, <2>5, <2>6 DEF IInv
<1>6. QED
  BY <1>4, <1>5

(* msvdx_decode_close leaves RENDEC to msvdx_close ...                     *)
LEMMA CloseHolds == IInv /\ Close => IInv'
<1> SUFFICES ASSUME IInv, Close PROVE IInv'
  OBVIOUS
<1>1. PICK S \in SUBSET Names : S = Configuration \cup {Bitstream, Cmdbuf}
  BY ConfigurationIs, NamesAre DEF Close, Kept
<1>2. /\ pc \in {"open", "ready"} /\ pc' = "stopping"
      /\ Release(S)
      /\ sized' = 0 /\ context' = FALSE
      /\ attached' = FALSE /\ pending' = {}
      /\ UNCHANGED <<todo, created, nextDev, pte, busy, late, left>>
  BY <1>1 DEF Close
<1>3. /\ Memory'
      /\ \A n \in Names : /\ n \in Cleared(S) => holds'[n] = None
                          /\ n \notin Cleared(S) => holds'[n] = holds[n]
      /\ \A n \in Names : Mapped(n)' <=> Mapped(n) /\ n \notin Cleared(S)
  BY <1>1, <1>2, ReleaseIs DEF IInv, TablesAfter
<1>4. /\ Bitstream \in Cleared(S) /\ Cmdbuf \in Cleared(S)
      /\ Cleared(Configuration) \subseteq Cleared(S)
  BY <1>1 DEF Cleared
<1>5. \A n \in Names : Mapped(n)' => n = Rendec
  <2>1. CASE pc = "open"
    <3>1. \A n \in Names : Mapped(n) => n \in {Rendec, Bitstream, Cmdbuf}
      BY <2>1 DEF IInv, Phase, Between, Device
    <3>2. QED
      BY <1>3, <1>4, <3>1
  <2>2. CASE pc = "ready"
    <3>1. Places(Total) \cup AllColocated \subseteq Cleared(S)
      BY <1>4, <2>2, ConfigurationIs
    <3>2. \A n \in Names : n \notin Cleared(S) => n = Rendec
      BY <1>4, <3>1, NamesAre DEF Kept, Device
    <3>3. QED
      BY <1>3, <3>2
  <2>3. QED
    BY <1>2, <2>1, <2>2
<1>6. Between({}, {Rendec})'
  BY <1>5 DEF Between
<1>7. \A n \in Kept : holds'[n] # None => Mapped(n)'
  BY <1>3, KeptStay, NamesAre DEF IInv
<1>8. Phase'
  BY <1>2, <1>6, <1>7 DEF Phase
<1>9. ControlType'
  <2>1. sized' \in 0 .. Surfaces
    BY <1>2, MemoryAssumption
  <2>2. QED
    BY <1>2, <2>1 DEF IInv, ControlType
<1>10. Counts' /\ Busy'
  BY <1>2 DEF IInv, Counts, Busy
<1>11. QED
  BY <1>3, <1>8, <1>9, <1>10 DEF IInv

(* ... which leaves nothing mapped.                                        *)
LEMMA StopHolds == IInv /\ Stop => IInv'
<1> SUFFICES ASSUME IInv, Stop PROVE IInv'
  OBVIOUS
<1>1. PICK S \in SUBSET Names : S = {Rendec}
  BY NamesAre
<1>2. /\ pc = "stopping" /\ pc' = "closed"
      /\ busy' = {} /\ late' = FALSE /\ left' = {}
      /\ Release(S)
      /\ nextDev' = DevBase /\ pte' = [d \in Dev |-> None]
      /\ UNCHANGED <<todo, sized, context, created, attached, pending>>
  BY <1>1 DEF Stop
<1>3. \A n \in Names : Mapped(n) => n \in Cleared(S)
  BY <1>1, <1>2 DEF IInv, Phase, Between, Cleared
<1>4. /\ Memory'
      /\ \A n \in Names : /\ n \in Cleared(S) => holds'[n] = None
                          /\ n \notin Cleared(S) => holds'[n] = holds[n]
      /\ \A n \in Names : Mapped(n)' <=> Mapped(n) /\ n \notin Cleared(S)
  BY <1>2, <1>3, ReleaseIs DEF IInv, TablesAfter
<1>5. Between({}, {})'
  BY <1>3, <1>4 DEF Between
<1>6. \A n \in Kept : holds'[n] # None => Mapped(n)'
  BY <1>4, KeptStay, NamesAre DEF IInv
<1>7. Phase'
  BY <1>2, <1>5, <1>6 DEF Phase
<1>8. ControlType'
  BY <1>2 DEF IInv, ControlType
<1>9. Counts' /\ Busy'
  BY <1>2 DEF IInv, Counts, Busy
<1>10. QED
  BY <1>4, <1>7, <1>8, <1>9 DEF IInv

-----------------------------------------------------------------------------
(* Every step keeps the invariant.                                         *)
LEMMA StepHolds == IInv /\ [Next]_vars => IInv'
<1> SUFFICES ASSUME IInv, [Next]_vars PROVE IInv'
  OBVIOUS
<1>1. CASE Open \/ OpenAllocates \/ OpenFails
  BY <1>1, OpenHolds, OpenAllocatesHolds, OpenFailsHolds
<1>2. CASE Configure \/ ConfigureAllocates \/ ConfigureFails \/ Unwind
  BY <1>2, ConfigureHolds, ConfigureAllocatesHolds, ConfigureFailsHolds,
     UnwindHolds
<1>3. ASSUME NEW i \in 1 .. Surfaces,
             Begin(i) \/ BeginFails(i) \/ SliceWaits(i) \/ SliceFlushes(i)
      PROVE  IInv'
  BY <1>3, BeginHolds, BeginFailsHolds, SliceWaitsHolds, SliceFlushesHolds
<1>4. CASE EndSends \/ EndReturns \/ MtxFinishes \/ Close \/ Stop
  BY <1>4, EndSendsHolds, PictureHolds, CloseHolds, StopHolds
<1>5. CASE UNCHANGED vars
  <2>1. UNCHANGED <<pc, todo, holds, sized, context, areas, created, nextDev,
                    pte, attached, pending, busy, late, left>>
    BY <1>5 DEF vars, memory, messages
  <2>2. Done' = Done /\ Unwound' = Unwound
    BY <2>1 DEF Done, Unwound
  <2>3. Memory' /\ \A n : Mapped(n)' <=> Mapped(n)
    BY <2>1, MemoryStays DEF IInv
  <2>4. Phase'
    BY <2>1, PhaseStays DEF IInv
  <2>5. QED
    BY <2>1, <2>2, <2>3, <2>4 DEF IInv, ControlType, Counts, Busy
<1>6. QED
  BY <1>1, <1>2, <1>3, <1>4, <1>5 DEF Next

(* So it always holds.                                                     *)
LEMMA AlwaysIInv == Spec => []IInv
BY InitHolds, StepHolds, PTL DEF Spec

(* The C variables hold areas that were created, addresses stay within the *)
(* decoder's space and sSurfaces never exceeds what was asked for, however *)
(* many surfaces, areas and failures there are.                            *)
THEOREM TypeCorrect == Spec => []TypeOK
<1>1. IInv => TypeOK
  <2>1. ASSUME IInv
        PROVE  Range(areas) \subseteq [for : Names, dev : Dev,
                                       mapped : BOOLEAN]
    BY <2>1 DEF IInv, Memory, MemoryType, Range
  <2>2. QED
    BY <2>1, Zenon DEF IInv, ControlType, Memory, MemoryType, TypeOK
<1>2. QED
  BY <1>1, AlwaysIInv, PTL

(* Whatever allocation fails, msvdx_free and the code that calls it leave  *)
(* no variable with an area that is gone, and lose no area but VLC tables  *)
(* and those that mmu_map could not map.                                   *)
THEOREM AllAccounted == Spec => []AreasAccounted
<1>1. IInv => AreasAccounted
  <2> SUFFICES ASSUME IInv PROVE AreasAccounted
    OBVIOUS
  <2>1. holds \in [Names -> AreaId \cup {None}]
    BY DEF IInv, Memory, MemoryType
  <2>2. Held = {holds[n] : n \in Names} \ {None}
    BY <2>1 DEF Held, Range
  <2>3. Held \subseteq DOMAIN areas
    BY <2>2, HoldsIs DEF IInv
  <2>4. ASSUME NEW a \in DOMAIN areas \ Held
        PROVE  areas[a].for = VlcTable \/ ~areas[a].mapped
    <3>1. \A n \in Names : holds[n] # a
      BY <2>2, <2>4, MemoryAssumption DEF IInv, Memory, MemoryType, AreaId
    <3>2. QED
      BY <3>1 DEF IInv, Memory, AreasKept
  <2>5. QED
    BY <2>3, <2>4 DEF AreasAccounted
<1>2. QED
  BY <1>1, AlwaysIInv, PTL

(* Neither a reconfiguration nor a close frees anything that the MTX may   *)
(* be using, unless end() gave up on a picture, or a message of a picture  *)
(* that was dropped still pointed there when a reconfiguration freed it.   *)
THEOREM BusyStays == Spec => []BusyIsThereUnlessLeft
<1>1. IInv => BusyIsThereUnlessLeft
  BY DEF IInv, Busy, BusyIsThereUnlessLeft
<1>2. QED
  BY <1>1, AlwaysIInv, PTL

(* As long as sNextDev does not come round, no buffer of a configuration   *)
(* in use was mapped over.                                                 *)
THEOREM MapsHold ==
    ASSUME NoWrap
    PROVE  Spec => []MmuPointsHome
<1>1. IInv => MmuPointsHome
  <2> SUFFICES ASSUME IInv, pc \in {"ready", "picture"},
                      NEW n \in Names, holds[n] # None
               PROVE  pte[areas[holds[n]].dev] = holds[n]
    BY DEF MmuPointsHome
  <2>1. Mapped(n)
    <3>1. CASE n \in Kept
      BY <3>1 DEF IInv, Phase
    <3>2. CASE n \in Device \cup Places(Total)
      BY <3>2 DEF IInv, Phase, Between
    <3>3. QED
      BY <3>1, <3>2, NamesAre
  <2>2. QED
    BY <2>1 DEF IInv, Memory, Space
<1>2. QED
  BY <1>1, AlwaysIInv, PTL

=============================================================================

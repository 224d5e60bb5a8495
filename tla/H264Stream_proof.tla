-------------------------- MODULE H264Stream_proof --------------------------
(***************************************************************************)
(* Proofs about H264Stream, for any number of surfaces, any batch and any  *)
(* streams.  The references: slices are led to the pictures they name, and *)
(* motion vectors survive as long as they may be read.  The commands       *)
(* (MsvdxEncode): what a slice is given lies whole in the buffer when its  *)
(* message is sent, the firmware finds every command and every byte of the *)
(* data from there, and the first slices of a picture leave room for the   *)
(* records.                                                                *)
(***************************************************************************)
EXTENDS H264Stream, FiniteSetTheorems, WellFoundedInduction,
        SequenceTheorems, TLAPS

Buffers == 1 .. ColocatedSize

(* What the proofs need of the types.                                      *)
Types ==
    /\ pc \in {"idle", "picture", "submit"}
    /\ count \in Nat
    /\ stream \in Streams
    /\ picture \in stream.pictures \cup {NoPicture}
    /\ dpb \subseteq Surface
    /\ dpbIdx \in [Surface -> Nat]
    /\ colIdx \in [Surface -> 0 .. ColocatedSize]
    /\ colocated \in 0 .. ColocatedSize
    /\ motion \in [Buffers -> Surface \cup {NoSurface}]

(* No two surfaces have the same colocated buffer.                         *)
OwnBuffers ==
    /\ \A s \in Surface : colIdx[s] <= colocated
    /\ \A s, t \in Surface : colIdx[s] = colIdx[t] /\ colIdx[s] # 0 => s = t

Holds(s) == colIdx[s] # 0 /\ motion[colIdx[s]] = s

(* While a picture is decoded, its references are in the DPB and know      *)
(* their places, and from its first slice on its buffer is its own.        *)
InPicture ==
    pc # "idle" =>
        /\ target \in Surface \ dpb
        /\ colIdx[target] # 0
        /\ count # 0 => Holds(target)
        /\ frames \in [1 .. Len(frames) -> dpb]
        /\ Len(frames) \in Nat
        /\ Len(frames) <= picture.refs
        /\ \A i \in 1 .. Len(frames) : dpbIdx[frames[i]] = i - 1

(* The inductive invariant.                                                *)
IInv ==
    /\ Types
    /\ OwnBuffers
    /\ \A s \in dpb : Holds(s)
    /\ InPicture
    /\ MotionIsTheirs
    /\ ReferencesResolve

-----------------------------------------------------------------------------
(* There are as many colocated buffers as a number says.                   *)
LEMMA SizeNat == ColocatedSize \in Nat
BY SurfaceAssumption, FS_CardinalityType DEF ColocatedSize

(* The remainder of a division by a positive number.                       *)
LEMMA Modulo == \A a \in Nat, b \in Nat \ {0} : a % b \in 0 .. b - 1
OBVIOUS

(* The least of some naturals is one of them and no greater than any.      *)
LEMMA LowestIs ==
    ASSUME NEW I \in SUBSET Nat, I # {}
    PROVE  Lowest(I) \in I /\ \A j \in I : Lowest(I) <= j
<1> DEFINE Less == {ss \in Nat \X Nat : ss[1] < ss[2]}
<1>1. IsWellFoundedOn(Less, Nat)
  BY NatLessThanWellFounded DEF OpToRel
<1>2. PICK i \in I : \A j \in I : <<j, i>> \notin Less
  BY <1>1, WFMin
<1>3. ASSUME NEW j \in I
      PROVE  i <= j
  <2>1. i \in Nat /\ j \in Nat
    OBVIOUS
  <2>2. j < i => <<j, i>> \in Less
    BY <2>1
  <2>3. QED
    BY <1>2, <2>1, <2>2
<1>4. QED
  BY <1>3 DEF Lowest

(* The reference frames of a picture are a list of the kept surfaces, each *)
(* of them once.                                                           *)
LEMMA FramesAre ==
    ASSUME NEW keep \in SUBSET Surface, NEW F \in SetToSeqs(keep)
    PROVE  /\ Len(F) \in Nat
           /\ Len(F) = Cardinality(keep)
           /\ F \in [1 .. Len(F) -> keep]
           /\ \A i, j \in 1 .. Len(F) : F[i] = F[j] => i = j
<1>1. Cardinality(keep) \in Nat
  BY SurfaceAssumption, FS_Subset, FS_CardinalityType
<1>2. /\ F \in [1 .. Cardinality(keep) -> keep]
      /\ \A i, j \in 1 .. Cardinality(keep) : i # j => F[i] # F[j]
  BY DEF SetToSeqs
<1>3. Len(F) = Cardinality(keep)
  BY <1>1, <1>2
<1>4. QED
  BY <1>1, <1>2, <1>3

(* The loop over the references leaves each of them with its place.        *)
LEMMA PlacedAt ==
    ASSUME NEW F, NEW n \in Nat, NEW keep \in SUBSET Surface,
           Len(F) \in Nat, Len(F) <= n, F \in [1 .. Len(F) -> keep],
           \A i, j \in 1 .. Len(F) : F[i] = F[j] => i = j,
           dpbIdx \in [Surface -> Nat]
    PROVE  /\ Placed(F, n) \in [Surface -> Nat]
           /\ \A i \in 1 .. Len(F) : Placed(F, n)[F[i]] = i - 1
<1> DEFINE at(s) == {i \in DOMAIN F : i <= n /\ F[i] = s}
<1>1. \A s \in Surface :
         Placed(F, n)[s] = IF at(s) = {} THEN dpbIdx[s]
                           ELSE Lowest(at(s)) - 1
  BY DEF Placed
<1>2. ASSUME NEW s \in Surface, at(s) # {}
      PROVE  Lowest(at(s)) \in at(s)
  <2>1. at(s) \in SUBSET Nat
    OBVIOUS
  <2>2. QED
    BY <1>2, <2>1, LowestIs
<1>3. ASSUME NEW s \in Surface
      PROVE  Placed(F, n)[s] \in Nat
  <2>1. CASE at(s) = {}
    BY <1>1, <2>1
  <2>2. CASE at(s) # {}
    <3>1. Lowest(at(s)) \in 1 .. Len(F)
      BY <1>2, <2>2
    <3>2. QED
      BY <1>1, <2>2, <3>1
  <2>3. QED
    BY <2>1, <2>2
<1>4. Placed(F, n) \in [Surface -> Nat]
  BY <1>3 DEF Placed
<1>5. ASSUME NEW i \in 1 .. Len(F)
      PROVE  Placed(F, n)[F[i]] = i - 1
  <2>1. F[i] \in Surface /\ i \in at(F[i])
    OBVIOUS
  <2>2. Lowest(at(F[i])) \in at(F[i])
    BY <1>2, <2>1
  <2>3. Lowest(at(F[i])) = i
    BY <2>2
  <2>4. QED
    BY <1>1, <2>1, <2>3
<1>6. QED
  BY <1>4, <1>5

(* Entries of l are frames, or name nothing.                               *)
Named(l) ==
    \A i \in DOMAIN l :
        l[i] = NoSurface \/ \E j \in 1 .. Len(frames) : l[i] = frames[j]

(* The entries of a slice's lists name references or nothing.              *)
LEMMA ListsAreNamed ==
    ASSUME NEW n \in 1 .. 32, NEW l \in Lists(frames, n),
           Len(frames) \in Nat, frames # << >>,
           NEW D, frames \in [1 .. Len(frames) -> D]
    PROVE  /\ DOMAIN l = 1 .. n
           /\ Named(l)
           /\ \E j \in 1 .. Len(frames) : l[1] = frames[j]
<1>1. Len(frames) # 0
  OBVIOUS
<1>2. CASE \E k \in DOMAIN frames :
              l = [i \in 1 .. n |-> frames[((i + k) % Len(frames)) + 1]]
  <2>1. PICK k \in DOMAIN frames :
              l = [i \in 1 .. n |-> frames[((i + k) % Len(frames)) + 1]]
    BY <1>2
  <2>2. k \in Nat
    OBVIOUS
  <2>3. ASSUME NEW i \in 1 .. n
        PROVE  ((i + k) % Len(frames)) + 1 \in 1 .. Len(frames)
    <3>1. i + k \in Nat /\ Len(frames) \in Nat \ {0}
      BY <1>1, <2>2
    <3>2. (i + k) % Len(frames) \in 0 .. Len(frames) - 1
      BY <3>1, Modulo
    <3>3. QED
      BY <3>1, <3>2
  <2>4. \A i \in 1 .. n : \E j \in 1 .. Len(frames) : l[i] = frames[j]
    BY <2>1, <2>3
  <2>5. QED
    BY <2>1, <2>4 DEF Named
<1>3. CASE l = [i \in 1 .. n |-> IF i <= Len(frames) THEN frames[i]
                                 ELSE NoSurface]
  BY <1>1, <1>3 DEF Named
<1>4. QED
  BY <1>2, <1>3 DEF Lists

-----------------------------------------------------------------------------
(* What the proofs about a slice's chunks are given.                       *)
Placing(n) ==
    /\ n \in Nat
    /\ dpb \subseteq Surface
    /\ Len(frames) \in Nat
    /\ Len(frames) <= n
    /\ frames \in [1 .. Len(frames) -> dpb]
    /\ \A i \in 1 .. Len(frames) : dpbIdx[frames[i]] = i - 1

(* A frame that a list names is found at its place in the table.           *)
LEMMA PlaceInTable ==
    ASSUME NEW n, Placing(n), NEW l0, NEW l1,
           NEW j \in 1 .. Len(frames),
           frames[j] \in Range(l0) \cup Range(l1)
    PROVE  /\ j - 1 \in DOMAIN Table(l0, l1, n)
           /\ Table(l0, l1, n)[j - 1] = frames[j]
<1>1. frames[j] \in Surface /\ frames[j] # NoSurface
  BY SurfaceAssumption DEF Placing
<1>2. dpbIdx[frames[j]] = j - 1
  BY DEF Placing
<1>3. j - 1 \in Used(l0, l1)
  BY <1>1, <1>2 DEF Used
<1>4. j - 1 \in 0 .. n - 1 /\ (j - 1) + 1 = j /\ j \in DOMAIN frames
  BY DEF Placing
<1>5. QED
  BY <1>3, <1>4 DEF Table

(* A list of a slice is sent as the places of its surfaces.                *)
LEMMA ListResolves ==
    ASSUME NEW n, Placing(n), NEW l0, NEW l1, NEW l, Named(l),
           l = l0 \/ l = l1
    PROVE  ReachesTheNamed(Table(l0, l1, n), l,
                           [i \in DOMAIN l |-> Index(l[i])])
<1> SUFFICES ASSUME NEW i \in DOMAIN l
             PROVE  IF l[i] = NoSurface THEN Index(l[i]) = NoIndex
                    ELSE /\ Index(l[i]) \in DOMAIN Table(l0, l1, n)
                         /\ Table(l0, l1, n)[Index(l[i])] = l[i]
  BY DEF ReachesTheNamed
<1>1. CASE l[i] = NoSurface
  BY <1>1 DEF Index
<1>2. CASE l[i] # NoSurface
  <2>1. PICK j \in 1 .. Len(frames) : l[i] = frames[j]
    BY <1>2 DEF Named
  <2>2. frames[j] \in Range(l0) \cup Range(l1)
    BY <2>1 DEF Range
  <2>3. Index(l[i]) = j - 1
    BY <1>2, <2>1 DEF Index, Placing
  <2>4. QED
    BY <1>2, <2>1, <2>2, <2>3, PlaceInTable
<1>3. QED
  BY <1>1, <1>2

(* A place says which surface it holds.                                    *)
LEMMA InverseResolves ==
    ASSUME NEW n, Placing(n), NEW l0, NEW l1, Named(l0),
           NEW m \in Nat, DOMAIN l0 = 1 .. m
    PROVE  InverseAgrees(Table(l0, l1, n), l0, Inverse0(l0))
<1> DEFINE at(k) == {i \in DOMAIN l0 :
                        l0[i] # NoSurface /\ dpbIdx[l0[i]] = k}
<1> SUFFICES ASSUME NEW k \in 0 .. 15, Inverse0(l0)[k] # NoIndex
             PROVE  /\ k \in DOMAIN Table(l0, l1, n)
                    /\ l0[Inverse0(l0)[k] + 1] = Table(l0, l1, n)[k]
                    /\ \A i \in 1 .. Inverse0(l0)[k] :
                          l0[i] # Table(l0, l1, n)[k]
  BY DEF InverseAgrees, Inverse0
<1>1. at(k) # {} /\ Inverse0(l0)[k] = Lowest(at(k)) - 1
  BY DEF Inverse0
<1>2. Lowest(at(k)) \in at(k) /\ \A i \in at(k) : Lowest(at(k)) <= i
  <2>1. at(k) \in SUBSET Nat
    OBVIOUS
  <2>2. QED
    BY <1>1, <2>1, LowestIs
<1> DEFINE first == Lowest(at(k))
<1>3. /\ first \in 1 .. m
      /\ l0[first] # NoSurface
      /\ dpbIdx[l0[first]] = k
      /\ \A i \in at(k) : first <= i
  BY <1>2
<1> HIDE DEF first
<1>4. PICK j \in 1 .. Len(frames) : l0[first] = frames[j]
  BY <1>3 DEF Named
<1>5. k = j - 1
  BY <1>3, <1>4 DEF Placing
<1>6. frames[j] \in Range(l0)
  BY <1>3, <1>4 DEF Range
<1>7. k \in DOMAIN Table(l0, l1, n) /\ Table(l0, l1, n)[k] = l0[first]
  BY <1>4, <1>5, <1>6, PlaceInTable
<1>8. ASSUME NEW i \in 1 .. first - 1
      PROVE  l0[i] # l0[first]
  <2>1. i \in DOMAIN l0 /\ ~ (first <= i)
    BY <1>3
  <2>2. i \notin at(k)
    BY <1>3, <2>1
  <2>3. QED
    BY <1>3, <2>1, <2>2
<1>9. Inverse0(l0)[k] = first - 1 /\ (first - 1) + 1 = first
  BY <1>1, <1>3 DEF first
<1>10. QED
  BY <1>7, <1>8, <1>9

-----------------------------------------------------------------------------
(* No picture has been decoded.                                            *)
LEMMA InitHolds == Init => IInv
<1> SUFFICES ASSUME Init PROVE IInv
  OBVIOUS
<1> USE DEF Init, EncodeInit, RefInit, Unused
<1>1. Types
  BY SizeNat DEF Types, Buffers
<1>2. OwnBuffers /\ InPicture
  BY DEF OwnBuffers, InPicture
<1>3. MotionIsTheirs /\ ReferencesResolve
  BY DEF MotionIsTheirs, ReferencesResolve
<1>4. QED
  BY <1>1, <1>2, <1>3 DEF IInv

(* The pictures of the stream have parameters of H.264.                    *)
LEMMA PictureIs ==
    ASSUME Types, NEW p \in stream.pictures
    PROVE  /\ p.refs \in 0 .. 16
           /\ \A s \in p.slices : s.l0 \in 1 .. 32 /\ s.l1 \in 1 .. 32
<1>1. p \in UNION {t.pictures : t \in Streams}
  BY DEF Types
<1>2. QED
  BY <1>1, EncodeAssumption

(* A surface that gets its first colocated buffer gets a new one.          *)
LEMMA ColocatedIsNew ==
    ASSUME Types, OwnBuffers, NEW t \in Surface, ColocatedFor(t)
    PROVE  /\ colIdx' \in [Surface -> 0 .. ColocatedSize]
           /\ colocated' \in 0 .. ColocatedSize
           /\ OwnBuffers'
           /\ colIdx'[t] # 0
           /\ \A s \in Surface : colIdx[s] # 0 => colIdx'[s] = colIdx[s]
<1>1. CASE colIdx[t] # 0
  BY <1>1 DEF ColocatedFor, OwnBuffers, Types
<1>2. CASE colIdx[t] = 0
  <2>1. /\ colocated < ColocatedSize
        /\ colocated' = colocated + 1
        /\ colIdx' = [colIdx EXCEPT ![t] = colocated + 1]
    BY <1>2 DEF ColocatedFor
  <2>2. /\ colocated' \in 0 .. ColocatedSize
        /\ colIdx' \in [Surface -> 0 .. ColocatedSize]
    BY <2>1, SizeNat DEF Types
  <2>3. /\ colIdx'[t] = colocated + 1
        /\ \A s \in Surface : s # t => colIdx'[s] = colIdx[s]
    BY <2>1 DEF Types
  <2>4. \A s \in Surface : colIdx[s] \in Nat /\ colIdx[s] <= colocated
    BY SizeNat DEF Types, OwnBuffers
  <2>5. colocated \in Nat
    BY SizeNat DEF Types
  <2>6. \A s \in Surface : colIdx'[s] <= colocated'
    BY <2>1, <2>3, <2>4, <2>5
  <2>7. \A s, u \in Surface :
           colIdx'[s] = colIdx'[u] /\ colIdx'[s] # 0 => s = u
    <3> SUFFICES ASSUME NEW s \in Surface, NEW u \in Surface,
                        colIdx'[s] = colIdx'[u], colIdx'[s] # 0
                 PROVE  s = u
      OBVIOUS
    <3>1. CASE s # t /\ u # t
      BY <2>3, <3>1 DEF OwnBuffers
    <3>2. CASE s = t \/ u = t
      BY <2>3, <2>4, <2>5, <3>2
    <3>3. QED
      BY <3>1, <3>2
  <2>8. QED
    BY <1>2, <2>2, <2>3, <2>5, <2>6, <2>7 DEF OwnBuffers
<1>3. QED
  BY <1>1, <1>2

(* A picture begins, and its surface gets a colocated buffer.              *)
LEMMA BeginKeeps ==
    ASSUME IInv, NEW p \in stream.pictures, Begin(p)
    PROVE  IInv'
<1> USE DEF Begin, BeginPicture, PictureParam, Holds
<1>1. PICK keep \in SUBSET dpb :
         /\ Cardinality(keep) <= p.refs
         /\ frames' \in SetToSeqs(keep)
         /\ target' \in Surface \ keep
         /\ dpb' = keep
         /\ ColocatedFor(target')
         /\ dpbIdx' = Placed(frames', p.refs)
         /\ sliceRefs' = {}
         /\ motion' = motion
  OBVIOUS
<1>2. Types /\ OwnBuffers /\ dpb \subseteq Surface /\ p.refs \in Nat
  BY PictureIs DEF IInv, Types
<1>3. keep \in SUBSET Surface
  BY <1>2
<1>4. /\ Len(frames') \in Nat
      /\ Len(frames') = Cardinality(keep)
      /\ frames' \in [1 .. Len(frames') -> keep]
      /\ \A i, j \in 1 .. Len(frames') : frames'[i] = frames'[j] => i = j
  BY <1>1, <1>3, FramesAre
<1>5. Len(frames') <= p.refs
  BY <1>1, <1>4
<1>6. /\ dpbIdx' \in [Surface -> Nat]
      /\ \A i \in 1 .. Len(frames') : dpbIdx'[frames'[i]] = i - 1
  BY <1>1, <1>2, <1>3, <1>4, <1>5, PlacedAt DEF Types
<1>7. /\ colIdx' \in [Surface -> 0 .. ColocatedSize]
      /\ colocated' \in 0 .. ColocatedSize
      /\ OwnBuffers'
      /\ colIdx'[target'] # 0
      /\ \A s \in Surface : colIdx[s] # 0 => colIdx'[s] = colIdx[s]
  BY <1>1, <1>2, ColocatedIsNew
<1>8. Types'
  BY <1>1, <1>2, <1>3, <1>6, <1>7 DEF Types, Buffers
<1>9. \A s \in dpb' : Holds(s)'
  BY <1>1, <1>3, <1>7 DEF IInv
<1>10. InPicture'
  BY <1>1, <1>4, <1>5, <1>6, <1>7 DEF InPicture
<1>11. MotionIsTheirs' /\ ReferencesResolve'
  BY <1>1, <1>9 DEF MotionIsTheirs, ReferencesResolve
<1>12. QED
  BY <1>7, <1>8, <1>9, <1>10, <1>11 DEF IInv

(* A picture that finds no memory leaves everything as it was.             *)
LEMMA BeginFailsKeeps ==
    ASSUME IInv, NEW p \in stream.pictures, BeginFails(p)
    PROVE  IInv'
<1> USE DEF BeginFails, PictureParamFails, encodeVars
<1>1. /\ dpb' = {} /\ sliceRefs' = {} /\ pc = "idle"
      /\ UNCHANGED <<dpbIdx, colIdx, colocated, motion, pc, picture, count,
                     stream>>
  OBVIOUS
<1>2. Types' /\ OwnBuffers'
  BY <1>1 DEF IInv, Types, OwnBuffers, Buffers
<1>3. InPicture'
  BY <1>1 DEF InPicture
<1>4. MotionIsTheirs' /\ ReferencesResolve'
  BY <1>1 DEF MotionIsTheirs, ReferencesResolve
<1>5. QED
  BY <1>1, <1>2, <1>3, <1>4 DEF IInv

(* What a slice's chunks say, and whose motion vectors it overwrites.      *)
LEMMA ReferKeeps ==
    ASSUME IInv, pc # "idle",
           NEW b \in BOOLEAN, NEW l0, NEW l1, Named(l0), Named(l1),
           NEW m \in Nat, DOMAIN l0 = 1 .. m,
           b => \E j \in 1 .. Len(frames) : l1[1] = frames[j],
           Refer(b, l0, l1, picture.refs)
    PROVE  /\ motion' \in [Buffers -> Surface \cup {NoSurface}]
           /\ \A s \in dpb : motion'[colIdx[s]] = s
           /\ motion'[colIdx[target]] = target
           /\ MotionIsTheirs'
           /\ ReferencesResolve'
<1>1. /\ target \in Surface /\ target \notin dpb /\ colIdx[target] # 0
      /\ Len(frames) \in Nat /\ Len(frames) <= picture.refs
      /\ frames \in [1 .. Len(frames) -> dpb]
      /\ \A i \in 1 .. Len(frames) : dpbIdx[frames[i]] = i - 1
  BY DEF IInv, InPicture
<1>2. dpb \subseteq Surface
  BY DEF IInv, Types
<1>3. picture.refs \in Nat
  <2>1. CASE picture = NoPicture
    <3>1. NoPicture.refs = 0
      BY DEF NoPicture
    <3>2. QED
      BY <2>1, <3>1
  <2>2. CASE picture \in stream.pictures
    <3>1. picture.refs \in 0 .. 16
      BY <2>2, PictureIs, Zenon DEF IInv
    <3>2. QED
      BY <3>1
  <2>3. QED
    BY <2>1, <2>2 DEF IInv, Types
<1>4. Placing(picture.refs)
  BY <1>1, <1>2, <1>3 DEF Placing
<1>5. \A s \in Surface : colIdx[s] # 0 => colIdx[s] \in Buffers
  BY SizeNat DEF IInv, Types, Buffers
<1>6. motion' = [motion EXCEPT ![colIdx[target]] = target]
  BY DEF Refer
<1>7. motion' \in [Buffers -> Surface \cup {NoSurface}]
  BY <1>1, <1>6 DEF IInv, Types
<1>8. motion'[colIdx[target]] = target
  BY <1>1, <1>5, <1>6 DEF IInv, Types
<1>9. ASSUME NEW s \in dpb
      PROVE  colIdx[s] \in Buffers /\ colIdx[s] # colIdx[target]
             /\ motion'[colIdx[s]] = s
  <2>1. colIdx[s] # 0 /\ motion[colIdx[s]] = s
    BY DEF IInv, Holds
  <2>2. colIdx[s] # colIdx[target]
    BY <1>1, <1>2, <2>1 DEF IInv, OwnBuffers
  <2>3. QED
    BY <1>2, <1>5, <1>6, <2>1, <2>2 DEF IInv, Types
<1> DEFINE r == [b |-> b, l0 |-> l0, l1 |-> l1,
                 list0 |-> [i \in DOMAIN l0 |-> Index(l0[i])],
                 list1 |-> [i \in DOMAIN l1 |-> Index(l1[i])],
                 inverse |-> IF b THEN Inverse0(l0) ELSE << >>,
                 table |-> Table(l0, l1, picture.refs),
                 own |-> colIdx[target],
                 col |-> IF b THEN colIdx[l1[1]] ELSE 0]
<1>10. /\ sliceRefs' = {r}
       /\ r.b = b /\ r.l0 = l0 /\ r.l1 = l1
       /\ r.list0 = [i \in DOMAIN l0 |-> Index(l0[i])]
       /\ r.list1 = [i \in DOMAIN l1 |-> Index(l1[i])]
       /\ r.inverse = IF b THEN Inverse0(l0) ELSE << >>
       /\ r.table = Table(l0, l1, picture.refs)
       /\ r.own = colIdx[target]
       /\ r.col = IF b THEN colIdx[l1[1]] ELSE 0
  <2>1. sliceRefs' = {r}
    BY DEF Refer
  <2>2. QED
    BY <2>1
<1> HIDE DEF r
<1>11. MotionIsTheirs'
  <2>1. \A s \in dpb' : motion'[colIdx'[s]] = s
    BY <1>9 DEF Refer
  <2>2. DOMAIN motion' = Buffers
    BY <1>7
  <2>3. ASSUME b
        PROVE  /\ r.col \in DOMAIN motion'
               /\ motion'[r.col] = r.l1[1]
               /\ r.own # r.col
    <3>1. PICK j \in 1 .. Len(frames) : l1[1] = frames[j]
      BY <2>3
    <3>2. l1[1] \in dpb
      BY <1>1, <3>1
    <3>3. QED
      BY <1>9, <1>10, <2>2, <2>3, <3>2
  <2>4. QED
    BY <1>10, <2>1, <2>3 DEF MotionIsTheirs
<1>12. ReferencesResolve'
  <2>1. ReachesTheNamed(r.table, r.l0, r.list0)
    BY <1>4, <1>10, ListResolves
  <2>2. ReachesTheNamed(r.table, r.l1, r.list1)
    BY <1>4, <1>10, ListResolves
  <2>3. InverseAgrees(r.table, r.l0, r.inverse)
    <3>1. CASE b
      BY <1>4, <1>10, <3>1, InverseResolves
    <3>2. CASE ~ b
      BY <1>10, <3>2 DEF InverseAgrees
    <3>3. QED
      BY <3>1, <3>2
  <2>4. \A q \in sliceRefs' : q = r
    BY <1>10
  <2>5. QED
    BY <2>1, <2>2, <2>3, <2>4
    DEF ReferencesResolve, ReachesTheNamed, InverseAgrees
<1>13. QED
  BY <1>7, <1>8, <1>9, <1>11, <1>12

(* A slice is sent: places are found or remembered.                        *)
LEMMA DecodeSliceKeeps ==
    ASSUME IInv, NEW s \in picture.slices, DecodeSlice(s)
    PROVE  IInv'
<1>1. /\ pc = "picture" /\ pc' = "submit" /\ count' = count + 1
      /\ SliceRefers(s, picture.refs)
      /\ UNCHANGED <<picture, stream>>
  BY DEF DecodeSlice, Slice
<1>2. picture \in stream.pictures /\ s.l0 \in 1 .. 32 /\ s.l1 \in 1 .. 32
  <2>1. picture # NoPicture
    BY DEF NoPicture
  <2>2. picture \in stream.pictures /\ Types
    BY <2>1 DEF IInv, Types
  <2>3. QED
    BY <2>2, PictureIs
<1>3. PICK b \in BOOLEAN : \E l0, l1 :
         /\ Named(l0) /\ Named(l1)
         /\ DOMAIN l0 = 1 .. s.l0
         /\ b => \E j \in 1 .. Len(frames) : l1[1] = frames[j]
         /\ Refer(b, l0, l1, picture.refs)
  <2>1. ASSUME NEW n
        PROVE  Named(NoList(n)) /\ DOMAIN NoList(n) = 1 .. n
    BY DEF Named, NoList
  <2>2. CASE s.type = "I"
    <3>1. Refer(FALSE, NoList(s.l0), NoList(s.l1), picture.refs)
      BY <1>1, <2>2 DEF SliceRefers
    <3>2. QED
      BY <2>1, <3>1
  <2>3. CASE s.type # "I"
    <3>1. PICK l0 \in Lists(frames, s.l0),
               l1 \in IF s.type = "B" THEN Lists(frames, s.l1)
                                      ELSE {NoList(s.l1)} :
             Refer(s.type = "B", l0, l1, picture.refs)
      BY <1>1, <2>3 DEF SliceRefers
    <3>2. frames # << >>
      BY <1>1, <2>3 DEF SliceRefers
    <3>3. Len(frames) \in Nat /\ frames \in [1 .. Len(frames) -> dpb]
      BY <1>1 DEF IInv, InPicture
    <3>4. Named(l0) /\ DOMAIN l0 = 1 .. s.l0
      BY <1>2, <3>2, <3>3, ListsAreNamed
    <3>5. CASE s.type = "B"
      <4>1. Named(l1) /\ \E j \in 1 .. Len(frames) : l1[1] = frames[j]
        BY <1>2, <3>2, <3>3, <3>5, ListsAreNamed
      <4>2. Refer(TRUE, l0, l1, picture.refs)
        BY <3>1, <3>5
      <4>3. QED
        BY <3>4, <4>1, <4>2
    <3>6. CASE s.type # "B"
      <4>1. Named(l1)
        BY <2>1, <3>6
      <4>2. Refer(FALSE, l0, l1, picture.refs)
        BY <3>1, <3>6
      <4>3. QED
        BY <3>4, <4>1, <4>2
    <3>7. QED
      BY <3>5, <3>6
  <2>4. QED
    BY <2>2, <2>3
<1>4. PICK l0, l1 :
         /\ Named(l0) /\ Named(l1)
         /\ DOMAIN l0 = 1 .. s.l0
         /\ b => \E j \in 1 .. Len(frames) : l1[1] = frames[j]
         /\ Refer(b, l0, l1, picture.refs)
  BY <1>3
<1>5. /\ motion' \in [Buffers -> Surface \cup {NoSurface}]
      /\ \A t \in dpb : motion'[colIdx[t]] = t
      /\ motion'[colIdx[target]] = target
      /\ MotionIsTheirs'
      /\ ReferencesResolve'
  <2>1. s.l0 \in Nat /\ pc # "idle"
    BY <1>1, <1>2
  <2>2. QED
    BY <1>4, <2>1, ReferKeeps
<1>6. UNCHANGED <<dpb, target, frames, dpbIdx, colIdx, colocated>>
  BY <1>4 DEF Refer
<1>7. Types' /\ OwnBuffers'
  BY <1>1, <1>5, <1>6 DEF IInv, Types, OwnBuffers, Buffers
<1>8. \A t \in dpb' : Holds(t)'
  BY <1>5, <1>6 DEF IInv, Holds
<1>9. InPicture'
  BY <1>1, <1>5, <1>6 DEF IInv, InPicture, Holds
<1>10. QED
  BY <1>5, <1>7, <1>8, <1>9 DEF IInv

(* The slices of a batch are submitted.                                    *)
LEMMA SubmitKeeps ==
    ASSUME IInv, SubmitSlice
    PROVE  IInv'
<1>1. /\ pc # "idle" /\ pc' \in {"submit", "picture"}
      /\ UNCHANGED <<dpb, target, frames, dpbIdx, colIdx, colocated, motion,
                     sliceRefs, picture, count, stream>>
  BY DEF SubmitSlice, FlushFirst, Submit, refVars
<1>2. Types' /\ OwnBuffers' /\ \A s \in dpb' : Holds(s)'
  BY <1>1 DEF IInv, Types, OwnBuffers, Buffers, Holds
<1>3. InPicture'
  BY <1>1 DEF IInv, InPicture, Holds
<1>4. MotionIsTheirs' /\ ReferencesResolve'
  BY <1>1 DEF IInv, MotionIsTheirs, ReferencesResolve
<1>5. QED
  BY <1>2, <1>3, <1>4 DEF IInv

(* A picture ends and its surface may be referred to, or it is dropped.    *)
LEMMA EndKeeps ==
    ASSUME IInv, End \/ GiveUp
    PROVE  IInv'
<1>1. /\ pc = "picture" /\ pc' = "idle" /\ sliceRefs' = {}
      /\ dpb' \in IF count > 0 THEN {dpb, dpb \cup {target}, {}} ELSE {{}}
      /\ UNCHANGED <<dpbIdx, colIdx, colocated, motion, picture, count,
                     stream>>
  BY DEF End, GiveUp, EndPicture, DropPicture, PictureEnds
<1>2. target \in Surface /\ (count # 0 => Holds(target))
  BY <1>1 DEF IInv, InPicture
<1>3. /\ dpb' \subseteq Surface
      /\ \A s \in dpb' : Holds(s)
  BY <1>1, <1>2 DEF IInv, Types
<1>4. Types' /\ OwnBuffers'
  BY <1>1, <1>3 DEF IInv, Types, OwnBuffers, Buffers
<1>5. \A s \in dpb' : Holds(s)'
  BY <1>1, <1>3 DEF Holds
<1>6. InPicture'
  BY <1>1 DEF InPicture
<1>7. MotionIsTheirs' /\ ReferencesResolve'
  BY <1>1, <1>5 DEF MotionIsTheirs, ReferencesResolve, Holds
<1>8. QED
  BY <1>4, <1>5, <1>6, <1>7 DEF IInv

(* Another stream begins.                                                  *)
LEMMA ConfigureKeeps ==
    ASSUME IInv, Configure
    PROVE  IInv'
<1>1. /\ pc' = "idle" /\ dpb' = {} /\ sliceRefs' = {}
      /\ dpbIdx' = [s \in Surface |-> 0]
      /\ colIdx' = [s \in Surface |-> 0]
      /\ colocated' = 0
      /\ motion' = [b \in Buffers |-> NoSurface]
      /\ UNCHANGED <<pc, picture, count, stream>>
  BY DEF Configure, NewContext, NewSurfaces, Unused, Buffers
<1>2. Types'
  BY <1>1, SizeNat DEF IInv, Types, Buffers
<1>3. OwnBuffers'
  BY <1>1 DEF OwnBuffers
<1>4. InPicture' /\ MotionIsTheirs' /\ ReferencesResolve'
  BY <1>1 DEF InPicture, MotionIsTheirs, ReferencesResolve
<1>5. QED
  BY <1>1, <1>2, <1>3, <1>4 DEF IInv

-----------------------------------------------------------------------------
(* IInv is an invariant.                                                   *)
THEOREM Inductive == Spec => []IInv
<1>1. ASSUME IInv, [Next]_vars
      PROVE  IInv'
  <2>1. ASSUME NEW p \in stream.pictures, Begin(p)
        PROVE  IInv'
    BY <1>1, <2>1, BeginKeeps
  <2>2. ASSUME NEW p \in stream.pictures, BeginFails(p)
        PROVE  IInv'
    BY <1>1, <2>2, BeginFailsKeeps
  <2>3. ASSUME NEW s \in picture.slices, DecodeSlice(s)
        PROVE  IInv'
    BY <1>1, <2>3, DecodeSliceKeeps
  <2>4. CASE SubmitSlice
    BY <1>1, <2>4, SubmitKeeps
  <2>5. CASE End \/ GiveUp
    BY <1>1, <2>5, EndKeeps
  <2>6. CASE Configure
    BY <1>1, <2>6, ConfigureKeeps
  <2>7. CASE UNCHANGED vars
    <3>1. UNCHANGED <<pc, picture, count, stream, dpb, target, frames,
                      dpbIdx, colIdx, colocated, motion, sliceRefs>>
      BY <2>7 DEF vars, encodeVars, refVars
    <3>2. Types' /\ OwnBuffers' /\ \A s \in dpb' : Holds(s)'
      BY <1>1, <3>1 DEF IInv, Types, OwnBuffers, Buffers, Holds
    <3>3. InPicture'
      BY <1>1, <3>1 DEF IInv, InPicture, Holds
    <3>4. MotionIsTheirs' /\ ReferencesResolve'
      BY <1>1, <3>1 DEF IInv, MotionIsTheirs, ReferencesResolve
    <3>5. QED
      BY <3>2, <3>3, <3>4 DEF IInv
  <2>8. QED
    BY <1>1, <2>1, <2>2, <2>3, <2>4, <2>5, <2>6, <2>7 DEF Next
<1>2. QED
  BY InitHolds, <1>1, PTL DEF Spec

(* A slice's lists lead the hardware to the surfaces they name, through    *)
(* places remembered from picture to picture (psb_H264.c's dpb_idx).       *)
THEOREM Resolution == Spec => []ReferencesResolve
<1>1. IInv => ReferencesResolve
  BY DEF IInv
<1>2. QED
  BY <1>1, Inductive, PTL

(* No motion vectors are overwritten that a later B slice may read         *)
(* (psb_H264.c's colocated buffers).                                       *)
THEOREM MotionKept == Spec => []MotionIsTheirs
<1>1. IInv => MotionIsTheirs
  BY DEF IInv
<1>2. QED
  BY <1>1, Inductive, PTL
-----------------------------------------------------------------------------
(* The commands.  At address a of the buffer is the word w.                *)
At(c, a, w) == a \in DOMAIN c.mem /\ c.mem[a] = w

(* A length in a header is a number of words.                              *)
Measured(w) ==
    /\ w.op \in {"skip", "rendec"} => w.length \in Nat
    /\ w.op = "regs" => w.pairs \in Nat
    /\ w.op = "chunk" => (w.less1 + 1) \div 2 \in Nat

(* Everything in the buffer lies behind its cursors.                       *)
Behind(c, a, w) ==
    a \in Nat /\ a <= (IF w.op = "dma" THEN c.lldma ELSE c.idx)

Buffer(c) ==
    /\ c = [idx |-> c.idx, start |-> c.start, lldma |-> c.lldma,
            mem |-> c.mem]
    /\ c.idx \in Nat /\ c.start \in Nat /\ c.lldma \in Nat
    /\ CmdWords <= c.lldma
    /\ \A a, w : At(c, a, w) => Behind(c, a, w) /\ Measured(w)

(* A word is where nothing is written any more, as long as the commands    *)
(* stay below the records.                                                 *)
Sits(c, a, w) ==
    /\ At(c, a, w)
    /\ \/ a + Extent(w) <= c.idx
       \/ CmdWords <= a /\ a + Extent(w) <= c.lldma

Fits(c) == c.idx < CmdWords

(* The buffer d is c with more in it.                                      *)
Grows(c, d) ==
    /\ Buffer(d)
    /\ d.start = c.start /\ c.idx <= d.idx /\ c.lldma <= d.lldma
    /\ Fits(d) => \A a, w : Sits(c, a, w) => Sits(d, a, w)

(* A record takes eight words, every other word is on its own.              *)
LEMMA ExtentIs == \A w : Extent(w) \in {1, 8}
BY DEF Extent, RecordWords

(* The words there are for commands are a number of words.                  *)
LEMMA CmdWordsNat == CmdWords \in Nat
BY DEF CmdWords, CmdSize

(* What was written before stays where it does not reach into lo .. hi - 1. *)
LEMMA OverwrittenIs ==
    ASSUME NEW m, NEW lo \in Nat, NEW hi \in Nat
    PROVE  \A a, w : (a \in DOMAIN Overwritten(m, lo, hi)
                        /\ Overwritten(m, lo, hi)[a] = w)
              <=> /\ a \in DOMAIN m /\ m[a] = w
                  /\ a + Extent(w) <= lo \/ a >= hi
BY DEF Overwritten

(* More words are passed over, and what lay there is gone.                 *)
LEMMA WordsAre ==
    ASSUME NEW c, Buffer(c), NEW n \in Nat
    PROVE  /\ Buffer(Words(c, n))
           /\ Words(c, n).idx = c.idx + n
           /\ Words(c, n).start = c.start
           /\ Words(c, n).lldma = c.lldma
           /\ \A a, w : At(Words(c, n), a, w) <=>
                 At(c, a, w) /\ (a + Extent(w) <= c.idx \/ a >= c.idx + n)
<1> DEFINE i == c.idx
           d == Words(c, n)
           m == Overwritten(c.mem, i, i + n)
<1>1. c.idx \in Nat /\ c.start \in Nat /\ c.lldma \in Nat
  BY DEF Buffer
<1>2. d = [idx |-> i + n, start |-> c.start, lldma |-> c.lldma, mem |-> m]
  <2>1. c = [idx |-> c.idx, start |-> c.start, lldma |-> c.lldma,
             mem |-> c.mem]
    BY DEF Buffer
  <2> HIDE DEF m
  <2>2. d = [c EXCEPT !.mem = m, !.idx = @ + n]
    BY DEF Words, m
  <2>3. QED
    BY <2>1, <2>2
<1>3. /\ d.idx = i + n /\ d.start = c.start /\ d.lldma = c.lldma
      /\ d.mem = m
  BY <1>2
<1>4. \A a, w : At(d, a, w) <=>
                 At(c, a, w) /\ (a + Extent(w) <= i \/ a >= i + n)
  <2> HIDE DEF d
  <2>1. i \in Nat /\ i + n \in Nat
    BY <1>1
  <2>2. \A a, w : (a \in DOMAIN m /\ m[a] = w)
              <=> /\ a \in DOMAIN c.mem /\ c.mem[a] = w
                  /\ a + Extent(w) <= i \/ a >= i + n
    <3> HIDE DEF i
    <3>1. QED
      BY <2>1, OverwrittenIs
  <2> HIDE DEF m, i
  <2>3. QED
    BY <1>3, <2>2 DEF At
<1> HIDE DEF d, m
<1>5. \A a, w : At(d, a, w) => Behind(d, a, w) /\ Measured(w)
  <2>1. \A a, w : At(d, a, w) => Behind(c, a, w) /\ Measured(w)
    BY <1>4 DEF Buffer
  <2>2. \A a, w : Behind(c, a, w) => Behind(d, a, w)
    BY <1>1, <1>3 DEF Behind
  <2>3. QED
    BY <2>1, <2>2
<1>6. d.idx \in Nat /\ d.start \in Nat /\ d.lldma \in Nat
      /\ CmdWords <= d.lldma
  BY <1>1, <1>3 DEF Buffer
<1>7. Buffer(d)
  BY <1>2, <1>3, <1>5, <1>6 DEF Buffer
<1>8. QED
  BY <1>3, <1>4, <1>7 DEF d

(* A header is written at its address and nowhere else.                    *)
LEMMA HeaderIs ==
    ASSUME NEW c, Buffer(c), NEW x, NEW word,
           Behind(c, x, word), Measured(word)
    PROVE  /\ Buffer(Header(c, x, word))
           /\ Header(c, x, word).idx = c.idx
           /\ Header(c, x, word).start = c.start
           /\ Header(c, x, word).lldma = c.lldma
           /\ At(Header(c, x, word), x, word)
           /\ \A a, w : a # x =>
                 (At(Header(c, x, word), a, w) <=> At(c, a, w))
<1> DEFINE d == Header(c, x, word)
           m == [b \in DOMAIN c.mem \cup {x} |-> IF b = x THEN word
                                                 ELSE c.mem[b]]
<1>1. c.idx \in Nat /\ c.start \in Nat /\ c.lldma \in Nat
  BY DEF Buffer
<1>2. d = [idx |-> c.idx, start |-> c.start, lldma |-> c.lldma, mem |-> m]
  <2>1. c = [idx |-> c.idx, start |-> c.start, lldma |-> c.lldma,
             mem |-> c.mem]
    BY DEF Buffer
  <2>2. d = [c EXCEPT !.mem = m]
    BY DEF Header
  <2> HIDE DEF m
  <2>3. QED
    BY <2>1, <2>2
<1>3. /\ d.idx = c.idx /\ d.start = c.start /\ d.lldma = c.lldma
      /\ d.mem = m
  BY <1>2
<1>4. At(d, x, word) /\ \A a, w : a # x => (At(d, a, w) <=> At(c, a, w))
  <2> HIDE DEF d
  <2>1. QED
    BY <1>3 DEF At
<1>5. \A a, w : At(d, a, w) => Behind(d, a, w) /\ Measured(w)
  <2> HIDE DEF d
  <2>1. \A a, w : Behind(c, a, w) => Behind(d, a, w)
    BY <1>3 DEF Behind
  <2>2. \A a, w : At(d, a, w) /\ a # x => Behind(c, a, w) /\ Measured(w)
    BY <1>4 DEF Buffer
  <2>3. \A w : At(d, x, w) => w = word
    BY <1>3 DEF At
  <2>4. QED
    BY <2>1, <2>2, <2>3
<1> HIDE DEF d, m
<1>6. Buffer(d)
  BY <1>1, <1>2, <1>3, <1>5 DEF Buffer
<1>7. QED
  BY <1>3, <1>4, <1>6 DEF d
(* More in the buffer, and more again.                                     *)
LEMMA GrowsOn ==
    ASSUME NEW c, Buffer(c), NEW d, NEW e, Grows(c, d), Grows(d, e)
    PROVE  Grows(c, e)
<1>1. Buffer(d) /\ Buffer(e)
  BY DEF Grows
<1>2. /\ c.idx \in Nat /\ d.idx \in Nat /\ e.idx \in Nat
      /\ c.lldma \in Nat /\ d.lldma \in Nat /\ e.lldma \in Nat
  BY <1>1 DEF Buffer
<1>3. Fits(e) => Fits(d)
  BY <1>2, CmdWordsNat DEF Grows, Fits
<1>4. e.start = c.start /\ c.idx <= e.idx /\ c.lldma <= e.lldma
  BY <1>2 DEF Grows
<1>5. QED
  BY <1>1, <1>3, <1>4 DEF Grows

(* Words are passed over.                                                  *)
LEMMA WordsGrow ==
    ASSUME NEW c, Buffer(c), NEW n \in Nat
    PROVE  /\ Grows(c, Words(c, n))
           /\ Words(c, n).idx = c.idx + n
           /\ Words(c, n).lldma = c.lldma
<1> DEFINE d == Words(c, n)
<1>1. /\ Buffer(d) /\ d.idx = c.idx + n /\ d.start = c.start
      /\ d.lldma = c.lldma
      /\ \A a, w : At(d, a, w) <=>
            At(c, a, w) /\ (a + Extent(w) <= c.idx \/ a >= c.idx + n)
  BY WordsAre
<1>2. c.idx \in Nat /\ c.lldma \in Nat
  BY DEF Buffer
<1> HIDE DEF d
<1>3. ASSUME Fits(d), NEW a, NEW w, Sits(c, a, w)
      PROVE  Sits(d, a, w)
  <2>1. a \in Nat /\ Extent(w) \in Nat
    BY <1>3, ExtentIs DEF Sits, Buffer, Behind
  <2>2. At(c, a, w)
    BY <1>3 DEF Sits
  <2>3. CASE a + Extent(w) <= c.idx
    BY <1>1, <1>2, <2>1, <2>2, <2>3 DEF Sits
  <2>4. CASE CmdWords <= a /\ a + Extent(w) <= c.lldma
    <3>1. a >= c.idx + n
      BY <1>1, <1>2, <1>3, <2>1, <2>4, CmdWordsNat DEF Fits
    <3>2. At(d, a, w)
      BY <1>1, <2>2, <3>1
    <3>3. QED
      BY <1>1, <2>4, <3>2 DEF Sits
  <2>5. QED
    BY <1>3, <2>3, <2>4 DEF Sits
<1>4. Grows(c, d)
  BY <1>1, <1>2, <1>3 DEF Grows
<1>5. QED
  BY <1>1, <1>4 DEF d

(* A header is written where words have been passed over since c.          *)
LEMMA HeadedGrows ==
    ASSUME NEW c, Buffer(c), NEW d, Grows(c, d), c.idx < d.idx,
           NEW word, word.op # "dma", Measured(word)
    PROVE  /\ Grows(c, Header(d, c.idx, word))
           /\ Header(d, c.idx, word).idx = d.idx
           /\ Header(d, c.idx, word).lldma = d.lldma
           /\ Sits(Header(d, c.idx, word), c.idx, word)
           /\ \A a, w : a # c.idx /\ Sits(d, a, w)
                          => Sits(Header(d, c.idx, word), a, w)
<1> DEFINE h == Header(d, c.idx, word)
<1>1. Buffer(d)
  BY DEF Grows
<1>2. /\ c.idx \in Nat /\ c.lldma \in Nat /\ d.idx \in Nat
      /\ d.lldma \in Nat
  BY <1>1 DEF Buffer
<1>3. Behind(d, c.idx, word)
  BY <1>2 DEF Behind
<1>4. /\ Buffer(h) /\ h.idx = d.idx /\ h.start = d.start
      /\ h.lldma = d.lldma /\ At(h, c.idx, word)
      /\ \A a, w : a # c.idx => (At(h, a, w) <=> At(d, a, w))
  <2> HIDE DEF h
  <2>1. QED
    BY <1>1, <1>3, HeaderIs DEF h
<1> HIDE DEF h
<1>5. Sits(h, c.idx, word)
  <2>1. Extent(word) = 1
    BY DEF Extent
  <2>2. QED
    BY <1>2, <1>4, <2>1 DEF Sits
<1>6. \A a, w : a # c.idx /\ Sits(d, a, w) => Sits(h, a, w)
  BY <1>4 DEF Sits
<1>7. ASSUME Fits(h), NEW a, NEW w, Sits(c, a, w)
      PROVE  Sits(h, a, w)
  <2>1. a \in Nat /\ Extent(w) \in Nat /\ Extent(w) >= 1
    BY <1>7, ExtentIs DEF Sits, Buffer, Behind
  <2>2. a # c.idx
    <3>1. c.idx < CmdWords
      BY <1>2, <1>4, <1>7, CmdWordsNat DEF Fits
    <3>2. a + Extent(w) <= c.idx \/ CmdWords <= a
      BY <1>7 DEF Sits
    <3>3. QED
      BY <1>2, <2>1, <3>1, <3>2, CmdWordsNat
  <2>3. Sits(d, a, w)
    BY <1>4, <1>7 DEF Grows, Fits
  <2>4. QED
    BY <1>6, <2>2, <2>3
<1>8. Grows(c, h)
  BY <1>2, <1>4, <1>7 DEF Grows
<1>9. QED
  BY <1>4, <1>5, <1>6, <1>8 DEF h

(* A command of one word.                                                  *)
LEMMA CommandIs ==
    ASSUME NEW c, Buffer(c), NEW op,
           op \in {"separator", "completion"}
    PROVE  /\ Grows(c, Command(c, op))
           /\ Command(c, op).idx = c.idx + 1
           /\ Command(c, op).lldma = c.lldma
           /\ Sits(Command(c, op), c.idx, [op |-> op])
<1> DEFINE d == Words(c, 1)
           word == [op |-> op]
<1>1. Grows(c, d) /\ d.idx = c.idx + 1 /\ d.lldma = c.lldma
  BY WordsGrow
<1>2. c.idx \in Nat
  BY DEF Buffer
<1>3. word.op # "dma" /\ Measured(word)
  BY DEF Measured
<1>4. Command(c, op) = Header(d, c.idx, word)
  BY DEF Command
<1> HIDE DEF d, word
<1>5. c.idx < d.idx
  BY <1>1, <1>2
<1>6. QED
  BY <1>1, <1>3, <1>4, <1>5, HeadedGrows DEF word

(* A record.                                                               *)
LEMMA RecordIs ==
    ASSUME NEW c, Buffer(c), NEW what, NEW at, NEW units, NEW next
    PROVE  LET d == Record(c, what, at, units, next)
           IN  /\ Grows(c, d)
               /\ d.idx = c.idx
               /\ d.lldma = c.lldma + RecordWords
               /\ Sits(d, c.lldma, [op |-> "dma", what |-> what, at |-> at,
                                    units |-> units, next |-> next])
<1> DEFINE d == Record(c, what, at, units, next)
           l == c.lldma
           m == Overwritten(c.mem, l, l + RecordWords)
           p == [c EXCEPT !.mem = Overwritten(@, c.lldma,
                                              c.lldma + RecordWords),
                          !.lldma = @ + RecordWords]
           word == [op |-> "dma", what |-> what, at |-> at, units |-> units,
                    next |-> next]
<1>1. /\ c.idx \in Nat /\ c.start \in Nat /\ l \in Nat /\ CmdWords <= l
      /\ RecordWords = 8
  BY DEF Buffer, RecordWords
<1>2. p = [idx |-> c.idx, start |-> c.start, lldma |-> l + RecordWords,
           mem |-> m]
  <2>1. c = [idx |-> c.idx, start |-> c.start, lldma |-> c.lldma,
             mem |-> c.mem]
    BY DEF Buffer
  <2> HIDE DEF m
  <2>2. p = [c EXCEPT !.mem = m, !.lldma = @ + RecordWords]
    BY DEF m
  <2> HIDE DEF p
  <2>3. QED
    BY <2>1, <2>2
<1>3. d = Header(p, l, word)
  BY DEF Record
<1>4. /\ p.idx = c.idx /\ p.start = c.start /\ p.lldma = l + RecordWords
      /\ p.mem = m
  BY <1>2
<1>5. word.op = "dma" /\ Measured(word) /\ Extent(word) = 8
  BY <1>1 DEF Measured, Extent
<1> HIDE DEF d, p, word
<1>6. \A a, w : At(p, a, w) <=>
         At(c, a, w) /\ (a + Extent(w) <= l \/ a >= l + RecordWords)
  <2>1. l + RecordWords \in Nat
    BY <1>1
  <2>2. \A a, w : (a \in DOMAIN m /\ m[a] = w)
              <=> /\ a \in DOMAIN c.mem /\ c.mem[a] = w
                  /\ a + Extent(w) <= l \/ a >= l + RecordWords
    <3> HIDE DEF l
    <3>1. QED
      BY <1>1, <2>1, OverwrittenIs
  <2> HIDE DEF m, l
  <2>3. QED
    BY <1>4, <2>2 DEF At
<1> HIDE DEF m
<1>7. Buffer(p)
  <2>1. \A a, w : At(p, a, w) => Behind(c, a, w) /\ Measured(w)
    BY <1>6 DEF Buffer
  <2>2. \A a, w : Behind(c, a, w) => Behind(p, a, w)
    BY <1>1, <1>4 DEF Behind
  <2>3. CmdWords <= p.lldma
    BY <1>1, <1>4, CmdWordsNat
  <2>4. QED
    BY <1>1, <1>2, <1>4, <2>1, <2>2, <2>3 DEF Buffer
<1>8. Behind(p, l, word)
  BY <1>1, <1>4, <1>5 DEF Behind
<1>9. /\ Buffer(d) /\ d.idx = c.idx /\ d.start = c.start
      /\ d.lldma = l + RecordWords /\ At(d, l, word)
      /\ \A a, w : a # l => (At(d, a, w) <=> At(p, a, w))
  BY <1>3, <1>4, <1>5, <1>7, <1>8, HeaderIs
<1>10. Sits(d, l, word)
  BY <1>1, <1>5, <1>9 DEF Sits
<1>11. ASSUME Fits(d), NEW a, NEW w, Sits(c, a, w)
       PROVE  Sits(d, a, w)
  <2>1. a \in Nat /\ Extent(w) \in Nat /\ Extent(w) >= 1 /\ At(c, a, w)
    BY <1>11, ExtentIs DEF Sits, Buffer, Behind
  <2>2. \/ a + Extent(w) <= c.idx
        \/ CmdWords <= a /\ a + Extent(w) <= l
    BY <1>11 DEF Sits
  <2>3. c.idx < CmdWords
    BY <1>9, <1>11 DEF Fits
  <2>4. a + Extent(w) <= l /\ a # l
    BY <1>1, <2>1, <2>2, <2>3, CmdWordsNat
  <2>5. At(d, a, w)
    BY <1>6, <1>9, <2>1, <2>4
  <2>6. \/ a + Extent(w) <= d.idx
        \/ CmdWords <= a /\ a + Extent(w) <= d.lldma
    BY <1>1, <1>9, <2>1, <2>2
  <2>7. QED
    BY <2>5, <2>6 DEF Sits
<1>12. Grows(c, d)
  BY <1>1, <1>9, <1>11 DEF Grows
<1>13. QED
  BY <1>9, <1>10, <1>12 DEF d, word
-----------------------------------------------------------------------------
(* Induction on the naturals, for a set.                                   *)
LEMMA FromZero ==
    ASSUME NEW S, 0 \in S, \A n \in Nat : n \in S => n + 1 \in S
    PROVE  \A n \in Nat : n \in S
<1> DEFINE I == {n \in Nat : n \notin S}
<1>1. CASE I = {}
  BY <1>1
<1>2. CASE I # {}
  <2>1. Lowest(I) \in I /\ \A j \in I : Lowest(I) <= j
    BY <1>2, LowestIs
  <2>2. PICK i \in Nat : i \notin S /\ \A j \in I : i <= j
    BY <2>1
  <2>3. i # 0
    BY <2>2
  <2>4. i - 1 \in Nat /\ ~ (i <= i - 1) /\ (i - 1) + 1 = i
    BY <2>2, <2>3
  <2>5. i - 1 \in S
    BY <2>2, <2>4
  <2>6. QED
    BY <2>2, <2>4, <2>5
<1>3. QED
  BY <1>1, <1>2

(* The chain of full records of a transfer: each is written behind the     *)
(* ones before.                                                            *)
LEMMA ChainIs ==
    ASSUME NEW c, NEW what, NEW at, NEW units, NEW width,
           NEW full \in Nat, full = FullRecords(units)
    PROVE  \E g : /\ g[0] = c
                  /\ \A k \in 1 .. full :
                        g[k] = Record(g[k - 1], what,
                                      at + (k - 1) * MaxDmaLen * width,
                                      MaxDmaLen, g[k - 1].lldma + RecordWords)
                  /\ Lldma(c, what, at, units, width)
                       = IF units - full * MaxDmaLen = 0 THEN g[full]
                         ELSE Record(g[full], what,
                                     at + full * MaxDmaLen * width,
                                     units - full * MaxDmaLen, None)
<1> DEFINE Link(d, k) == Record(d, what, at + (k - 1) * MaxDmaLen * width,
                                MaxDmaLen, d.lldma + RecordWords)
           P(n) == \E g : g = [k \in 0 .. n |-> IF k = 0 THEN c
                                                ELSE Link(g[k - 1], k)]
           S == {n \in Nat : P(n)}
<1>1. \A n \in Nat : n \in S
  <2>1. 0 \in S
    <3>1. [k \in 0 .. 0 |-> c]
             = [k \in 0 .. 0 |-> IF k = 0 THEN c
                                 ELSE Link([j \in 0 .. 0 |-> c][k - 1], k)]
      <4> HIDE DEF Link
      <4>1. QED
        OBVIOUS
    <3> HIDE DEF Link
    <3>2. P(0)
      BY <3>1
    <3>3. QED
      BY <3>2
  <2>2. ASSUME NEW n \in Nat, n \in S
        PROVE  n + 1 \in S
    <3> HIDE DEF Link
    <3>1. PICK g : g = [k \in 0 .. n |-> IF k = 0 THEN c
                                         ELSE Link(g[k - 1], k)]
      BY <2>2
    <3> DEFINE h == [k \in 0 .. n + 1 |-> IF k = n + 1
                                          THEN Link(g[n], n + 1) ELSE g[k]]
    <3>2. ASSUME NEW k \in 0 .. n + 1
          PROVE  h[k] = IF k = 0 THEN c ELSE Link(h[k - 1], k)
      <4>1. CASE k = n + 1
        BY <4>1
      <4>2. CASE k # n + 1
        <5>1. k \in 0 .. n
          BY <4>2
        <5>2. k # 0 => k - 1 \in 0 .. n /\ k - 1 # n + 1
          BY <5>1
        <5>3. QED
          BY <3>1, <4>2, <5>1, <5>2
      <4>3. QED
        BY <4>1, <4>2
    <3>3. h = [k \in 0 .. n + 1 |-> IF k = 0 THEN c ELSE Link(h[k - 1], k)]
      BY <3>2
    <3> HIDE DEF h
    <3>4. P(n + 1)
      BY <3>3
    <3>5. QED
      BY <3>4
  <2> HIDE DEF S
  <2>3. QED
    BY <2>1, <2>2, FromZero
<1> DEFINE F == CHOOSE g : g = [k \in 0 .. full |->
                                  IF k = 0 THEN c ELSE Link(g[k - 1], k)]
<1>2. F = [k \in 0 .. full |-> IF k = 0 THEN c ELSE Link(F[k - 1], k)]
  <2>1. P(full)
    BY <1>1
  <2> HIDE DEF Link
  <2>2. QED
    BY <2>1
<1>3. Lldma(c, what, at, units, width)
        = IF units - full * MaxDmaLen = 0 THEN F[full]
          ELSE Record(F[full], what, at + full * MaxDmaLen * width,
                      units - full * MaxDmaLen, None)
  BY DEF Lldma
<1> HIDE DEF F
<1>4. F[0] = c /\ \A k \in 1 .. full : F[k] = Link(F[k - 1], k)
  <2> HIDE DEF Link
  <2>1. QED
    BY <1>2
<1>5. QED
  BY <1>3, <1>4
(* The j-th record of a transfer of units units from at on, whose records  *)
(* lie from address r on.                                                  *)
Part(r, what, at, units, width, j) ==
    [op |-> "dma", what |-> what, at |-> at + j * MaxDmaLen * width,
     units |-> IF j < FullRecords(units) THEN MaxDmaLen
               ELSE units - j * MaxDmaLen,
     next |-> IF j < FullRecords(units) THEN r + (j + 1) * RecordWords
              ELSE None]

ListAt(c, r, what, at, units, width) ==
    \A j \in 0 .. FullRecords(units) :
        Sits(c, r + j * RecordWords, Part(r, what, at, units, width, j))

(* The last record of a transfer takes what the full ones left.            *)
LEMMA FullIs ==
    ASSUME NEW units \in Nat \ {0}
    PROVE  /\ FullRecords(units) \in Nat
           /\ MaxDmaLen * FullRecords(units) < units
           /\ units <= MaxDmaLen * FullRecords(units) + MaxDmaLen
<1>1. units - 1 \in Nat
  OBVIOUS
<1>2. \A u \in Nat : /\ u \div 65535 \in Nat
                     /\ 65535 * (u \div 65535) <= u
                     /\ u < 65535 * (u \div 65535) + 65535
  OBVIOUS
<1> DEFINE q == (units - 1) \div 65535
<1>3. q \in Nat /\ 65535 * q <= units - 1 /\ units - 1 < 65535 * q + 65535
  BY <1>1, <1>2
<1>4. FullRecords(units) = q /\ MaxDmaLen = 65535
  BY DEF FullRecords, MaxDmaLen
<1> HIDE DEF q
<1>5. 65535 * q < units /\ units <= 65535 * q + 65535
  BY <1>3
<1>6. QED
  BY <1>3, <1>4, <1>5

(* A record keeps its place while more is written.                         *)
LEMMA ListKept ==
    ASSUME NEW c, NEW d, Grows(c, d), Fits(d),
           NEW r, NEW what, NEW at, NEW units, NEW width,
           ListAt(c, r, what, at, units, width)
    PROVE  ListAt(d, r, what, at, units, width)
BY DEF ListAt, Grows

(* The records of a transfer.                                              *)
LEMMA LldmaIs ==
    ASSUME NEW c, Buffer(c), NEW what, NEW at,
           NEW units \in Nat \ {0}, NEW width
    PROVE  LET d == Lldma(c, what, at, units, width)
           IN  /\ Grows(c, d)
               /\ d.idx = c.idx
               /\ d.lldma = c.lldma + 8 * (FullRecords(units) + 1)
               /\ Fits(d) => ListAt(d, c.lldma, what, at, units, width)
<1> DEFINE d == Lldma(c, what, at, units, width)
           full == FullRecords(units)
           r == c.lldma
           part(j) == Part(r, what, at, units, width, j)
<1>1. /\ full \in Nat /\ MaxDmaLen * full < units
      /\ r \in Nat /\ RecordWords = 8
  BY FullIs DEF Buffer, RecordWords
<1>2. PICK g : /\ g[0] = c
               /\ \A k \in 1 .. full :
                     g[k] = Record(g[k - 1], what,
                                   at + (k - 1) * MaxDmaLen * width,
                                   MaxDmaLen, g[k - 1].lldma + RecordWords)
               /\ d = IF units - full * MaxDmaLen = 0 THEN g[full]
                      ELSE Record(g[full], what,
                                  at + full * MaxDmaLen * width,
                                  units - full * MaxDmaLen, None)
  <2> HIDE DEF d, full
  <2>1. QED
    BY <1>1, ChainIs DEF d, full
<1>3. d = Record(g[full], what, at + full * MaxDmaLen * width,
                 units - full * MaxDmaLen, None)
  <2>1. units - full * MaxDmaLen # 0
    BY <1>1 DEF MaxDmaLen
  <2>2. QED
    BY <1>2, <2>1
<1>4. \A j \in 0 .. full - 1 :
         part(j) = [op |-> "dma", what |-> what,
                    at |-> at + j * MaxDmaLen * width, units |-> MaxDmaLen,
                    next |-> r + (j + 1) * RecordWords]
  BY <1>1 DEF Part
<1>5. part(full) = [op |-> "dma", what |-> what,
                    at |-> at + full * MaxDmaLen * width,
                    units |-> units - full * MaxDmaLen, next |-> None]
  BY <1>1 DEF Part
<1> HIDE DEF d, part
<1> DEFINE Linked(k) ==
             /\ Grows(c, g[k])
             /\ g[k].idx = c.idx
             /\ g[k].lldma = r + k * RecordWords
             /\ Fits(c) => \A j \in 0 .. k - 1 :
                              Sits(g[k], r + j * RecordWords, part(j))
           S == {k \in Nat : k <= full => Linked(k)}
<1>6. \A k \in Nat : k \in S
  <2>1. Linked(0)
    <3>1. Grows(c, c)
      BY DEF Grows, Buffer
    <3>2. QED
      BY <1>1, <1>2, <3>1
  <2>2. ASSUME NEW k \in Nat, k \in S, k + 1 <= full
        PROVE  Linked(k + 1)
    <3>1. k \in 0 .. full - 1 /\ k + 1 \in 1 .. full /\ (k + 1) - 1 = k
      BY <1>1, <2>2
    <3>2. Linked(k)
      BY <1>1, <2>2
    <3> DEFINE old == g[k]
               new == g[k + 1]
    <3>3. new = Record(old, what, at + k * MaxDmaLen * width, MaxDmaLen,
                       old.lldma + RecordWords)
      BY <1>2, <3>1
    <3>4. old.lldma = r + k * RecordWords /\ Grows(c, old)
          /\ old.idx = c.idx
      BY <3>2
    <3>5. old.lldma + RecordWords = r + (k + 1) * RecordWords
      BY <1>1, <3>4
    <3> HIDE DEF old, new
    <3>6. Buffer(old)
      BY <3>4 DEF Grows
    <3>7. part(k) = [op |-> "dma", what |-> what,
                     at |-> at + k * MaxDmaLen * width, units |-> MaxDmaLen,
                     next |-> old.lldma + RecordWords]
      BY <1>4, <3>1, <3>5
    <3>8. /\ Grows(old, new) /\ new.idx = old.idx
          /\ new.lldma = old.lldma + RecordWords
          /\ Sits(new, old.lldma, part(k))
      BY <3>3, <3>6, <3>7, RecordIs
    <3>9. Grows(c, new)
      BY <3>4, <3>8, GrowsOn
    <3>10. ASSUME Fits(c), NEW j \in 0 .. k
           PROVE  Sits(new, r + j * RecordWords, part(j))
      <4>1. CASE j = k
        BY <3>4, <3>8, <4>1
      <4>2. CASE j # k
        <5>1. j \in 0 .. k - 1
          BY <4>2
        <5>2. Sits(old, r + j * RecordWords, part(j))
          BY <3>2, <3>10, <5>1 DEF old
        <5>3. Fits(new)
          BY <3>4, <3>8, <3>10 DEF Fits
        <5>4. QED
          BY <3>8, <5>2, <5>3 DEF Grows
      <4>3. QED
        BY <4>1, <4>2
    <3>11. 0 .. (k + 1) - 1 = 0 .. k
      OBVIOUS
    <3>12. /\ Grows(c, new) /\ new.idx = c.idx
           /\ new.lldma = r + (k + 1) * RecordWords
           /\ Fits(c) => \A j \in 0 .. (k + 1) - 1 :
                            Sits(new, r + j * RecordWords, part(j))
      BY <3>4, <3>5, <3>8, <3>9, <3>10, <3>11
    <3>13. QED
      BY <3>12 DEF new
  <2> HIDE DEF Linked
  <2>3. 0 \in S /\ \A k \in Nat : k \in S => k + 1 \in S
    <3>1. 0 \in S
      BY <2>1
    <3>2. ASSUME NEW k \in Nat, k \in S
          PROVE  k + 1 \in S
      BY <2>2, <3>2
    <3>3. QED
      BY <3>1, <3>2
  <2> HIDE DEF S
  <2>4. QED
    BY <2>3, FromZero
<1>7. Linked(full)
  <2> HIDE DEF Linked
  <2>1. full \in S
    BY <1>1, <1>6
  <2>2. QED
    BY <1>1, <2>1
<1> DEFINE last == g[full]
<1>8. /\ Grows(c, last) /\ last.idx = c.idx
      /\ last.lldma = r + full * RecordWords
      /\ Fits(c) => \A j \in 0 .. full - 1 :
                       Sits(last, r + j * RecordWords, part(j))
  BY <1>7
<1> HIDE DEF last
<1>9. Buffer(last)
  BY <1>8 DEF Grows
<1>10. /\ Grows(last, d) /\ d.idx = last.idx
       /\ d.lldma = last.lldma + RecordWords
       /\ Sits(d, last.lldma, part(full))
  BY <1>3, <1>5, <1>9, RecordIs DEF last
<1>11. Grows(c, d)
  BY <1>8, <1>10, GrowsOn
<1>12. d.lldma = r + 8 * (full + 1)
  BY <1>1, <1>8, <1>10
<1>13. ASSUME Fits(d)
       PROVE  ListAt(d, r, what, at, units, width)
  <2>1. Fits(c)
    BY <1>8, <1>10, <1>13 DEF Fits
  <2>2. ASSUME NEW j \in 0 .. full
        PROVE  Sits(d, r + j * RecordWords, part(j))
    <3>1. CASE j = full
      BY <1>8, <1>10, <3>1
    <3>2. CASE j # full
      <4>1. j \in 0 .. full - 1
        BY <1>1, <3>2
      <4>2. QED
        BY <1>8, <1>10, <1>13, <2>1, <4>1 DEF Grows
    <3>3. QED
      BY <3>1, <3>2
  <2>3. QED
    BY <2>2 DEF ListAt, part
<1>14. QED
  BY <1>8, <1>10, <1>11, <1>12, <1>13 DEF d
(* From address a on there are n words of chunks.                          *)
ChunksAt(c, a, n) ==
    \E k \in Nat : \E pos \in [0 .. k -> Nat] :
        /\ pos[0] = 0
        /\ pos[k] = n
        /\ \A i \in 1 .. k :
              /\ pos[i] > pos[i - 1]
              /\ Sits(c, a + pos[i - 1],
                      [op |-> "chunk",
                       less1 |-> SymbolsLess1(pos[i] - pos[i - 1] - 1)])

(* A command for a transfer.                                               *)
LEMMA LldmaCommandIs ==
    ASSUME NEW c, Buffer(c), NEW what, NEW at,
           NEW units \in Nat \ {0}, NEW width
    PROVE  LET d == LldmaCommand(c, what, at, units, width)
           IN  /\ Grows(c, d)
               /\ d.idx = c.idx + 1
               /\ d.lldma = c.lldma + 8 * (FullRecords(units) + 1)
               /\ Fits(d) =>
                     /\ Sits(d, c.idx, [op |-> "lldma", record |-> c.lldma])
                     /\ ListAt(d, c.lldma, what, at, units, width)
<1> DEFINE one == Words(c, 1)
           word == [op |-> "lldma", record |-> c.lldma]
           headed == Header(one, c.idx, word)
           d == LldmaCommand(c, what, at, units, width)
<1>1. Grows(c, one) /\ one.idx = c.idx + 1 /\ one.lldma = c.lldma
  BY WordsGrow
<1>2. c.idx \in Nat
  BY DEF Buffer
<1>3. word.op # "dma" /\ Measured(word)
  BY DEF Measured
<1>4. d = Lldma(headed, what, at, units, width)
  BY DEF LldmaCommand
<1> HIDE DEF one, word, d
<1>5. c.idx < one.idx
  BY <1>1, <1>2
<1>6. /\ Grows(c, headed) /\ headed.idx = c.idx + 1
      /\ headed.lldma = c.lldma /\ Sits(headed, c.idx, word)
  BY <1>1, <1>3, <1>5, HeadedGrows
<1> HIDE DEF headed
<1>7. Buffer(headed)
  BY <1>6 DEF Grows
<1>8. /\ Grows(headed, d) /\ d.idx = headed.idx
      /\ d.lldma = headed.lldma + 8 * (FullRecords(units) + 1)
      /\ Fits(d) => ListAt(d, headed.lldma, what, at, units, width)
  BY <1>4, <1>7, LldmaIs
<1>9. Grows(c, d)
  BY <1>6, <1>8, GrowsOn
<1>10. Fits(d) => Sits(d, c.idx, word)
  BY <1>6, <1>8 DEF Grows
<1>11. QED
  BY <1>6, <1>8, <1>9, <1>10 DEF d, word

(* A block of registers.                                                   *)
LEMMA RegistersAre ==
    ASSUME NEW c, Buffer(c), NEW pairs \in Nat
    PROVE  /\ Grows(c, Registers(c, pairs))
           /\ Registers(c, pairs).idx = c.idx + 1 + 2 * pairs
           /\ Registers(c, pairs).lldma = c.lldma
           /\ Sits(Registers(c, pairs), c.idx,
                   [op |-> "regs", pairs |-> pairs])
<1> DEFINE end == Words(c, 1 + 2 * pairs)
           word == [op |-> "regs", pairs |-> pairs]
<1>1. /\ Grows(c, end) /\ end.idx = c.idx + (1 + 2 * pairs)
      /\ end.lldma = c.lldma
  <2>1. 1 + 2 * pairs \in Nat
    OBVIOUS
  <2>2. QED
    BY <2>1, WordsGrow
<1>2. c.idx \in Nat
  BY DEF Buffer
<1>3. word.op # "dma" /\ Measured(word)
  BY DEF Measured
<1>4. Registers(c, pairs) = Header(end, c.idx,
                                   [op |-> "regs",
                                    pairs |-> (end.idx - c.idx - 1) \div 2])
  BY DEF Registers
<1> HIDE DEF end
<1>5. (end.idx - c.idx - 1) \div 2 = pairs
  BY <1>1, <1>2
<1>6. Registers(c, pairs) = Header(end, c.idx, word)
  BY <1>4, <1>5
<1> HIDE DEF word
<1>7. c.idx < end.idx /\ end.idx = c.idx + 1 + 2 * pairs
  BY <1>1, <1>2
<1>8. QED
  BY <1>1, <1>3, <1>6, <1>7, HeadedGrows DEF word

(* A chunk.                                                                *)
LEMMA ChunkIs ==
    ASSUME NEW c, Buffer(c), NEW words \in Nat
    PROVE  /\ Grows(c, Chunk(c, words))
           /\ Chunk(c, words).idx = c.idx + 1 + words
           /\ Chunk(c, words).lldma = c.lldma
           /\ Sits(Chunk(c, words), c.idx,
                   [op |-> "chunk", less1 |-> SymbolsLess1(words)])
<1> DEFINE end == Words(c, 1 + words)
           word == [op |-> "chunk", less1 |-> SymbolsLess1(words)]
<1>1. /\ Grows(c, end) /\ end.idx = c.idx + (1 + words)
      /\ end.lldma = c.lldma
  <2>1. 1 + words \in Nat
    OBVIOUS
  <2>2. QED
    BY <2>1, WordsGrow
<1>2. c.idx \in Nat
  BY DEF Buffer
<1>3. word.op # "dma" /\ Measured(word)
  BY DEF Measured, SymbolsLess1
<1>4. Chunk(c, words) = Header(end, c.idx, word)
  BY DEF Chunk
<1> HIDE DEF end, word
<1>5. c.idx < end.idx /\ end.idx = c.idx + 1 + words
  BY <1>1, <1>2
<1>6. QED
  BY <1>1, <1>3, <1>4, <1>5, HeadedGrows DEF word

(* Chunks of the given words, one behind the other: pos says where each    *)
(* of them ends.                                                           *)
Ends(chunks, pos) ==
    /\ chunks \in Seq(Nat)
    /\ pos \in [0 .. Len(chunks) -> Nat]
    /\ pos[0] = 0
    /\ \A k \in 1 .. Len(chunks) : pos[k] = pos[k - 1] + 1 + chunks[k]

(* The chunks of a rendec block, behind each other                          *)
LEMMA WrittenIs ==
    ASSUME NEW c, NEW chunks, Len(chunks) \in Nat
    PROVE  \E g : /\ g[0] = Words(c, 3)
                  /\ \A k \in 1 .. Len(chunks) :
                        g[k] = Chunk(g[k - 1], chunks[k])
                  /\ Rendec(c, chunks)
                       = Header(Command(g[Len(chunks)], "separator"), c.idx,
                                [op |-> "rendec",
                                 length |->
                                   RendecLength(c.idx, g[Len(chunks)].idx)])
<1> DEFINE len == Len(chunks)
<1> HIDE DEF len
<1>0. len \in Nat
  BY DEF len
<1> DEFINE open == Words(c, 3)
           P(n) == \E g : g = [k \in 0 .. n |-> IF k = 0 THEN open
                                       ELSE Chunk(g[k - 1], chunks[k])]
           S == {n \in Nat : P(n)}
<1> HIDE DEF open
<1>1. \A n \in Nat : n \in S
  <2>1. 0 \in S
    <3>1. [k \in 0 .. 0 |-> open]
             = [k \in 0 .. 0 |-> IF k = 0 THEN open
                                 ELSE Chunk([j \in 0 .. 0 |-> open][k - 1],
                                            chunks[k])]
      OBVIOUS
    <3>2. P(0)
      BY <3>1
    <3>3. QED
      BY <3>2
  <2>2. ASSUME NEW n \in Nat, n \in S
        PROVE  n + 1 \in S
    <3>1. PICK g : g = [k \in 0 .. n |-> IF k = 0 THEN open
                                         ELSE Chunk(g[k - 1], chunks[k])]
      BY <2>2
    <3> DEFINE h == [k \in 0 .. n + 1 |-> IF k = n + 1
                                          THEN Chunk(g[n], chunks[n + 1])
                                          ELSE g[k]]
    <3>2. ASSUME NEW k \in 0 .. n + 1
          PROVE  h[k] = IF k = 0 THEN open ELSE Chunk(h[k - 1], chunks[k])
      <4>1. CASE k = n + 1
        BY <4>1
      <4>2. CASE k # n + 1
        <5>1. k \in 0 .. n
          BY <4>2
        <5>2. k # 0 => k - 1 \in 0 .. n /\ k - 1 # n + 1
          BY <5>1
        <5>3. QED
          BY <3>1, <4>2, <5>1, <5>2
      <4>3. QED
        BY <4>1, <4>2
    <3>3. h = [k \in 0 .. n + 1 |-> IF k = 0 THEN open
                                    ELSE Chunk(h[k - 1], chunks[k])]
      BY <3>2
    <3> HIDE DEF h
    <3>4. P(n + 1)
      BY <3>3
    <3>5. QED
      BY <3>4
  <2> HIDE DEF S
  <2>3. QED
    BY <2>1, <2>2, FromZero
<1> DEFINE F == CHOOSE g : g = [k \in 0 .. len |->
                                  IF k = 0 THEN open
                                  ELSE Chunk(g[k - 1], chunks[k])]
<1>2. F = [k \in 0 .. len |-> IF k = 0 THEN open
                             ELSE Chunk(F[k - 1], chunks[k])]
  <2>1. P(len)
    BY <1>0, <1>1
  <2>2. QED
    BY <2>1
<1>3. Rendec(c, chunks)
        = Header(Command(F[len], "separator"), c.idx,
                 [op |-> "rendec", length |-> RendecLength(c.idx, F[len].idx)])
  BY DEF Rendec, open, len
<1> HIDE DEF F
<1>4. F[0] = open /\ \A k \in 1 .. len : F[k] = Chunk(F[k - 1], chunks[k])
  BY <1>0, <1>2
<1>5. QED
  BY <1>3, <1>4 DEF open, len
(* A rendec block: its header counts the chunks and what they begin with.  *)
LEMMA RendecIs ==
    ASSUME NEW c, Buffer(c), NEW chunks, NEW pos, Ends(chunks, pos),
           NEW n, n = pos[Len(chunks)]
    PROVE  LET d == Rendec(c, chunks)
           IN  /\ Grows(c, d)
               /\ d.idx = c.idx + 4 + n
               /\ d.lldma = c.lldma
               /\ Fits(d) =>
                     /\ Sits(d, c.idx, [op |-> "rendec", length |-> n + 3])
                     /\ ChunksAt(d, c.idx + 3, n)
                     /\ Sits(d, c.idx + 3 + n, [op |-> "separator"])
<1>0. PICK g : /\ g[0] = Words(c, 3)
               /\ \A k \in 1 .. Len(chunks) :
                     g[k] = Chunk(g[k - 1], chunks[k])
               /\ Rendec(c, chunks)
                    = Header(Command(g[Len(chunks)], "separator"), c.idx,
                             [op |-> "rendec",
                              length |->
                                RendecLength(c.idx, g[Len(chunks)].idx)])
  <2>1. Len(chunks) \in Nat
    BY DEF Ends
  <2>2. QED
    BY <2>1, WrittenIs
<1> DEFINE open == Words(c, 3)
           b == c.idx + 3
           len == Len(chunks)
           d == Rendec(c, chunks)
           word(i) == [op |-> "chunk",
                       less1 |-> SymbolsLess1(pos[i] - pos[i - 1] - 1)]
<1>1. /\ len \in Nat /\ c.idx \in Nat /\ b \in Nat
      /\ \A k \in 0 .. len : pos[k] \in Nat
      /\ n \in Nat /\ pos[0] = 0
  BY DEF Ends, Buffer
<1>2. \A k \in 1 .. len : /\ chunks[k] \in Nat
                          /\ pos[k] = pos[k - 1] + 1 + chunks[k]
  BY DEF Ends
<1>3. Grows(c, open) /\ open.idx = b /\ open.lldma = c.lldma
  BY WordsGrow
<1> HIDE DEF open, d, word, b, len
<1>4. /\ g[0] = open
      /\ \A k \in 1 .. len : g[k] = Chunk(g[k - 1], chunks[k])
      /\ d = Header(Command(g[len], "separator"), c.idx,
                    [op |-> "rendec",
                     length |-> RendecLength(c.idx, g[len].idx)])
  BY <1>0 DEF open, d, len
<1> DEFINE Linked(k) ==
             /\ Grows(c, g[k])
             /\ g[k].idx = b + pos[k]
             /\ g[k].lldma = c.lldma
             /\ Fits(g[k]) => \A i \in 1 .. k :
                                 Sits(g[k], b + pos[i - 1], word(i))
           S == {k \in Nat : k <= len => Linked(k)}
<1>5. Linked(0)
  BY <1>1, <1>3, <1>4
<1>6. ASSUME NEW k \in Nat, k + 1 <= len, Linked(k)
      PROVE  Linked(k + 1)
  <2> DEFINE old == g[k]
             new == g[k + 1]
             j == k + 1
  <2>0. len \in Nat /\ k + 1 <= len
    BY <1>1, <1>6
  <2>1. j \in 1 .. len /\ j - 1 = k /\ k \in 0 .. len /\ j \in 0 .. len
    BY <2>0, SMTT(20)
  <2>2. /\ chunks[j] \in Nat /\ pos[j] = pos[k] + 1 + chunks[j]
        /\ pos[k] \in Nat /\ pos[j] \in Nat
    BY <1>1, <1>2, <2>1
  <2>3. new = Chunk(old, chunks[j])
    BY <1>4, <2>1
  <2>4. /\ Grows(c, old) /\ old.idx = b + pos[k] /\ old.lldma = c.lldma
        /\ Fits(old) => \A i \in 1 .. k : Sits(old, b + pos[i - 1], word(i))
    BY <1>6
  <2> HIDE DEF old, new, j
  <2>5. Buffer(old)
    BY <2>4 DEF Grows
  <2>6. /\ Grows(old, new) /\ new.idx = old.idx + 1 + chunks[j]
        /\ new.lldma = old.lldma
        /\ Sits(new, old.idx, [op |-> "chunk",
                               less1 |-> SymbolsLess1(chunks[j])])
    BY <2>2, <2>3, <2>5, ChunkIs
  <2>7. word(j) = [op |-> "chunk", less1 |-> SymbolsLess1(chunks[j])]
    <3>1. pos[j] - pos[j - 1] - 1 = chunks[j]
      BY <2>1, <2>2
    <3>2. QED
      BY <3>1 DEF word
  <2>8. Sits(new, b + pos[j - 1], word(j))
    BY <2>1, <2>4, <2>6, <2>7
  <2>9. Grows(c, new)
    BY <2>4, <2>6, GrowsOn
  <2>10. new.idx = b + pos[j]
    <3>1. b \in Nat /\ new.idx = b + pos[k] + 1 + chunks[j]
      BY <1>1, <2>4, <2>6
    <3>2. pos[j] = pos[k] + 1 + chunks[j] /\ pos[k] \in Nat
      BY <2>2
    <3>3. chunks[j] \in Nat
      BY <2>2
    <3>4. QED
      BY <3>1, <3>2, <3>3
  <2>11. ASSUME Fits(new), NEW i \in 1 .. j
         PROVE  Sits(new, b + pos[i - 1], word(i))
    <3>1. CASE i = j
      BY <2>8, <3>1
    <3>2. CASE i # j
      <4>1. i \in 1 .. k
        BY <2>1, <3>2
      <4>2. Fits(old)
        BY <1>1, <2>2, <2>4, <2>6, <2>11, CmdWordsNat DEF Fits
      <4>3. Sits(old, b + pos[i - 1], word(i))
        BY <2>4, <4>1, <4>2
      <4>4. QED
        BY <2>6, <2>11, <4>3 DEF Grows
    <3>3. QED
      BY <3>1, <3>2
  <2>12. QED
    BY <2>4, <2>6, <2>9, <2>10, <2>11 DEF new, j
<1>7. Linked(len)
  <2> HIDE DEF Linked
  <2>1. 0 \in S
    BY <1>5
  <2>2. ASSUME NEW k \in Nat, k \in S
        PROVE  k + 1 \in S
    <3>1. CASE k + 1 <= len
      <4>1. Linked(k)
        BY <1>1, <2>2, <3>1
      <4>2. QED
        BY <1>6, <3>1, <4>1
    <3>2. QED
      BY <3>1
  <2>3. \A k \in Nat : k \in S
    <3> HIDE DEF S
    <3>1. QED
      BY <2>1, <2>2, FromZero
  <2>4. QED
    BY <1>1, <2>3
<1> DEFINE full == g[len]
           sep == Command(full, "separator")
           header == [op |-> "rendec", length |-> n + 3]
<1>8. /\ Grows(c, full) /\ full.idx = b + n /\ full.lldma = c.lldma
      /\ Fits(full) => \A i \in 1 .. len :
                          Sits(full, b + pos[i - 1], word(i))
  BY <1>7 DEF len
<1>9. d = Header(sep, c.idx, header)
  <2>1. RendecLength(c.idx, full.idx) = n + 3
    BY <1>1, <1>8 DEF RendecLength, b
  <2>2. QED
    BY <1>4, <2>1
<1> HIDE DEF full, Linked, S
<1>10. Buffer(full)
  BY <1>8 DEF Grows
<1>11. /\ Grows(full, sep) /\ sep.idx = full.idx + 1
       /\ sep.lldma = full.lldma
       /\ Sits(sep, full.idx, [op |-> "separator"])
  BY <1>10, CommandIs
<1> HIDE DEF sep
<1>12. Grows(c, sep) /\ c.idx < sep.idx /\ sep.idx = c.idx + 4 + n
  <2>1. Grows(c, sep)
    BY <1>8, <1>11, GrowsOn
  <2>2. sep.idx = c.idx + 3 + n + 1
    BY <1>8, <1>11 DEF b
  <2>3. c.idx \in Nat /\ n \in Nat
    BY <1>1
  <2>4. QED
    BY <2>1, <2>2, <2>3
<1>13. header.op # "dma" /\ Measured(header)
  BY <1>1 DEF Measured
<1> HIDE DEF header
<1>14. /\ Grows(c, d) /\ d.idx = sep.idx /\ d.lldma = sep.lldma
       /\ Sits(d, c.idx, header)
       /\ \A a, w : a # c.idx /\ Sits(sep, a, w) => Sits(d, a, w)
  BY <1>9, <1>12, <1>13, HeadedGrows
<1>15. Sits(d, c.idx + 3 + n, [op |-> "separator"])
  <2>1. full.idx # c.idx /\ full.idx = c.idx + 3 + n
    BY <1>1, <1>8 DEF b
  <2>2. QED
    BY <1>11, <1>14, <2>1
<1>16. ASSUME Fits(d), NEW i \in 1 .. len
       PROVE  /\ pos[i] > pos[i - 1]
              /\ Sits(d, b + pos[i - 1], word(i))
  <2>1. /\ pos[i - 1] \in Nat /\ chunks[i] \in Nat
        /\ pos[i] = pos[i - 1] + 1 + chunks[i]
    <3>1. i - 1 \in 0 .. len
      BY <1>1
    <3>2. QED
      BY <1>1, <1>2, <3>1
  <2>2. Fits(full) /\ Fits(sep)
    BY <1>1, <1>8, <1>11, <1>14, <1>16, CmdWordsNat DEF Fits
  <2>3. Sits(sep, b + pos[i - 1], word(i))
    BY <1>8, <1>11, <2>2 DEF Grows
  <2>4. b + pos[i - 1] # c.idx
    BY <1>1, <2>1 DEF b
  <2>5. QED
    BY <1>14, <2>1, <2>3, <2>4
<1>17. ASSUME Fits(d)
       PROVE  ChunksAt(d, b, n)
  <2>1. pos \in [0 .. len -> Nat] /\ pos[len] = n /\ pos[0] = 0
    BY DEF Ends
  <2>2. QED
    BY <1>1, <1>16, <1>17, <2>1 DEF ChunksAt, word
<1>18. QED
  BY <1>8, <1>11, <1>12, <1>14, <1>15, <1>17 DEF d, b, header
-----------------------------------------------------------------------------
(* Chunks of n words together, their headers counted.                      *)
Totals(chunks, n) ==
    n \in Nat /\ \E pos : Ends(chunks, pos) /\ pos[Len(chunks)] = n

(* No chunks take no words.                                                 *)
LEMMA TotalNone == Totals(<< >>, 0)
<1> DEFINE pos == [k \in 0 .. 0 |-> 0]
<1>1. << >> \in Seq(Nat) /\ Len(<< >>) = 0
  OBVIOUS
<1>2. Ends(<< >>, pos) /\ pos[0] = 0
  BY <1>1 DEF Ends
<1>3. QED
  BY <1>1, <1>2 DEF Totals

(* A chunk takes its words and its header.                                  *)
LEMMA TotalOne ==
    ASSUME NEW a \in Nat
    PROVE  Totals(<< a >>, 1 + a)
<1> DEFINE s == << a >>
           pos == [k \in 0 .. 1 |-> IF k = 0 THEN 0 ELSE 1 + a]
<1>1. s \in Seq(Nat) /\ Len(s) = 1 /\ s[1] = a
  OBVIOUS
<1>2. Ends(s, pos) /\ pos[1] = 1 + a
  <2> HIDE DEF s
  <2>1. QED
    BY <1>1 DEF Ends
<1> HIDE DEF s, pos
<1>3. QED
  BY <1>1, <1>2 DEF Totals, s

(* Two chunks take their words and two headers.                             *)
LEMMA TotalTwo ==
    ASSUME NEW a \in Nat, NEW b \in Nat
    PROVE  Totals(<< a, b >>, 2 + a + b)
<1> DEFINE s == << a, b >>
           pos == [k \in 0 .. 2 |-> IF k = 0 THEN 0
                                    ELSE IF k = 1 THEN 1 + a ELSE 2 + a + b]
<1>1. s \in Seq(Nat) /\ Len(s) = 2 /\ s[1] = a /\ s[2] = b
  OBVIOUS
<1>2. Ends(s, pos) /\ pos[2] = 2 + a + b
  <2> HIDE DEF s
  <2>1. \A k \in 1 .. 2 : pos[k] = pos[k - 1] + 1 + s[k]
    BY <1>1
  <2>2. pos \in [0 .. 2 -> Nat] /\ pos[0] = 0 /\ pos[2] = 2 + a + b
    OBVIOUS
  <2> HIDE DEF pos
  <2>3. QED
    BY <1>1, <2>1, <2>2 DEF Ends
<1> HIDE DEF s, pos
<1>3. QED
  BY <1>1, <1>2 DEF Totals, s

(* Chunks behind chunks take the words of both.                             *)
LEMMA TotalBoth ==
    ASSUME NEW s, NEW t, NEW m, NEW n, Totals(s, m), Totals(t, n)
    PROVE  Totals(s \o t, m + n)
<1>1. PICK p : Ends(s, p) /\ p[Len(s)] = m
  BY DEF Totals
<1>2. PICK q : Ends(t, q) /\ q[Len(t)] = n
  BY DEF Totals
<1> DEFINE a == Len(s)
           b == Len(t)
           u == s \o t
           pos == [k \in 0 .. a + b |-> IF k <= a THEN p[k] ELSE m + q[k - a]]
<1>3. /\ a \in Nat /\ b \in Nat /\ m \in Nat /\ n \in Nat
      /\ s \in Seq(Nat) /\ t \in Seq(Nat)
  BY <1>1, <1>2 DEF Ends, Totals
<1>4. /\ u \in Seq(Nat) /\ Len(u) = a + b
      /\ \A k \in 1 .. a : u[k] = s[k]
      /\ \A k \in a + 1 .. a + b : u[k] = t[k - a]
  BY <1>3
<1>5. /\ p \in [0 .. a -> Nat] /\ p[0] = 0 /\ p[a] = m
      /\ \A k \in 1 .. a : p[k] = p[k - 1] + 1 + s[k]
  BY <1>1 DEF Ends
<1>6. /\ q \in [0 .. b -> Nat] /\ q[0] = 0 /\ q[b] = n
      /\ \A k \in 1 .. b : q[k] = q[k - 1] + 1 + t[k]
  BY <1>2 DEF Ends
<1>7. \A k \in 1 .. b : t[k] \in Nat
  BY <1>3
<1> HIDE DEF a, b, u
<1>8. pos \in [0 .. a + b -> Nat]
  <2>1. ASSUME NEW k \in 0 .. a + b
        PROVE  (IF k <= a THEN p[k] ELSE m + q[k - a]) \in Nat
    <3>1. CASE k <= a
      BY <1>3, <1>5, <3>1
    <3>2. CASE ~ (k <= a)
      <4>1. k - a \in 0 .. b
        BY <1>3, <3>2
      <4>2. q[k - a] \in Nat
        BY <1>6, <4>1
      <4>3. QED
        BY <1>3, <3>2, <4>2
    <3>3. QED
      BY <3>1, <3>2
  <2>2. QED
    BY <2>1
<1>9. pos[0] = 0
  BY <1>3, <1>5
<1>10. pos[a + b] = m + n
  <2>1. CASE b = 0
    BY <1>3, <1>5, <1>6, <2>1
  <2>2. CASE b # 0
    <3>1. a + b \in 0 .. a + b /\ ~ (a + b <= a) /\ (a + b) - a = b
      BY <1>3, <2>2
    <3>2. QED
      BY <1>6, <3>1
  <2>3. QED
    BY <2>1, <2>2
<1>11. ASSUME NEW k \in 1 .. a + b
       PROVE  pos[k] = pos[k - 1] + 1 + u[k]
  <2>1. CASE k <= a
    <3>1. k \in 1 .. a /\ k \in 0 .. a + b /\ k - 1 \in 0 .. a + b
          /\ k - 1 <= a
      BY <1>3, <2>1
    <3>2. QED
      BY <1>4, <1>5, <2>1, <3>1
  <2>2. CASE k = a + 1
    <3>1. /\ k \in 0 .. a + b /\ k - 1 \in 0 .. a + b /\ ~ (k <= a)
          /\ k - 1 = a /\ a <= a /\ k - a = 1 /\ 1 \in 1 .. b
          /\ k \in a + 1 .. a + b /\ 1 - 1 = 0
      BY <1>3, <2>2
    <3>2. pos[k] = m + q[1] /\ pos[k - 1] = m /\ u[k] = t[1]
      BY <1>4, <1>5, <3>1
    <3>3. q[1] = 0 + 1 + t[1] /\ t[1] \in Nat
      BY <1>6, <1>7, <3>1
    <3>4. m \in Nat
      BY <1>3
    <3>5. m + (0 + 1 + t[1]) = m + 1 + t[1]
      BY <3>3, <3>4
    <3>6. QED
      BY <3>2, <3>3, <3>5, SMTT(20)
  <2>3. CASE k > a + 1
    <3>0. PICK j \in Int : j = k - a
      BY <1>3
    <3>1. /\ k \in 0 .. a + b /\ k - 1 \in 0 .. a + b /\ ~ (k <= a)
          /\ ~ (k - 1 <= a) /\ j \in 1 .. b /\ (k - 1) - a = j - 1
          /\ k \in a + 1 .. a + b /\ j - 1 \in 0 .. b /\ j \in 0 .. b
      BY <1>3, <2>3, <3>0
    <3>2. pos[k] = m + q[j] /\ pos[k - 1] = m + q[j - 1] /\ u[k] = t[j]
      BY <1>4, <3>0, <3>1
    <3> HIDE DEF pos
    <3>3. /\ q[j] = q[j - 1] + 1 + t[j] /\ t[j] \in Nat
          /\ q[j] \in Nat /\ q[j - 1] \in Nat
      BY <1>6, <1>7, <3>1
    <3>4. m + q[j] = (m + q[j - 1]) + 1 + t[j]
      <4>1. \A x, y, z \in Nat : x = y + 1 + z => m + x = (m + y) + 1 + z
        BY <1>3
      <4>2. QED
        BY <3>3, <4>1
    <3>5. QED
      BY <3>2, <3>4
  <2>4. QED
    BY <1>3, <2>1, <2>2, <2>3
<1> HIDE DEF pos
<1>12. Ends(u, pos)
  BY <1>4, <1>8, <1>9, <1>11 DEF Ends
<1>13. QED
  BY <1>3, <1>4, <1>10, <1>12 DEF Totals, u

(* Chunks that are not always written.                                     *)
LEMMA TotalOnly ==
    ASSUME NEW chunks, NEW n, Totals(chunks, n), NEW condition,
           NEW s, NEW m, Totals(s, m)
    PROVE  \E k \in Nat : /\ k <= n
                          /\ Totals(s \o Only(condition, chunks), m + k)
<1>1. n \in Nat
  BY DEF Totals
<1>2. CASE condition
  <2>1. Only(condition, chunks) = chunks
    BY <1>2 DEF Only
  <2>2. QED
    BY <1>1, <2>1, TotalBoth
<1>3. CASE ~ condition
  <2>1. Only(condition, chunks) = << >>
    BY <1>3 DEF Only
  <2>2. Totals(s \o << >>, m + 0)
    BY TotalNone, TotalBoth
  <2>3. QED
    BY <1>1, <2>1, <2>2
<1>4. QED
  BY <1>2, <1>3

(* The chunks of a slice, whatever H.264 lets it be, are 306 words or      *)
(* less.                                                                   *)
LEMMA ChunksFit ==
    ASSUME NEW p \in UNION {t.pictures : t \in Streams}, NEW s \in p.slices
    PROVE  \E n \in Nat : n <= 306 /\ Totals(Chunks(p, s), n)
<1> DEFINE b == s.type = "B"
           c0 == << 1, 7 >>
           c1 == c0 \o Only(p.high, << ScalingWords >>)
           c2 == c1 \o Only(b, << OrderWords(p), BSliceWords(s) >>)
           c3 == c2 \o Only(s.type \in {"P", "B"}, << ListWords(s.l0) >>)
           c4 == c3 \o Only(p.refs > 0, << 2 * p.refs >>)
           c5 == c4 \o Only(Weighted(p, s), << WeightWords >>)
           c6 == c5 \o Only(Weighted(p, s) /\ b, << WeightWords >>)
           c7 == c6 \o << 10, 1 >>
<1>1. Chunks(p, s) = c7
  BY DEF Chunks
<1>2. /\ p.refs \in Nat /\ p.refs <= 16
      /\ s.l0 \in Nat /\ s.l0 <= 32 /\ s.l1 \in Nat /\ s.l1 <= 32
  <2>1. /\ p.refs \in 0 .. 16
        /\ {s.l0, s.l1} \subseteq 1 .. 32
    BY EncodeAssumption
  <2>2. QED
    BY <2>1
<1>3. \A l \in Nat : l <= 32 => ListWords(l) \in Nat /\ ListWords(l) <= 8
  BY DEF ListWords
<1>4. ScalingWords = 56 /\ WeightWords = 64
  BY DEF ScalingWords, WeightWords
<1>5. /\ OrderWords(p) \in Nat /\ OrderWords(p) <= 34
      /\ BSliceWords(s) \in Nat /\ BSliceWords(s) <= 18
      /\ ListWords(s.l0) \in Nat /\ ListWords(s.l0) <= 8
      /\ 2 * p.refs \in Nat /\ 2 * p.refs <= 32
  <2>1. /\ ListWords(s.l0) \in Nat /\ ListWords(s.l0) <= 8
        /\ ListWords(s.l1) \in Nat /\ ListWords(s.l1) <= 8
    BY <1>2, <1>3
  <2>2. BSliceWords(s) = 10 + ListWords(s.l1)
    <3>1. 32 \div 4 = 8
      OBVIOUS
    <3>2. QED
      BY <2>1, <3>1 DEF BSliceWords
  <2>3. OrderWords(p) \in Nat /\ OrderWords(p) <= 34
    BY <1>2 DEF OrderWords
  <2>4. QED
    BY <1>2, <2>1, <2>2, <2>3
<1> HIDE DEF c0, c1, c2, c3, c4, c5, c6, b
<1>6. Totals(c0, 10)
  <2>1. Totals(<< 1, 7 >>, 2 + 1 + 7)
    BY TotalTwo
  <2>2. QED
    BY <2>1 DEF c0
<1>7. PICK k1 \in Nat : k1 <= 57 /\ Totals(c1, 10 + k1)
  <2>1. Totals(<< ScalingWords >>, 57)
    <3>1. Totals(<< 56 >>, 1 + 56)
      BY TotalOne
    <3>2. QED
      BY <1>4, <3>1
  <2>2. QED
    BY <1>6, <2>1, TotalOnly DEF c1
<1>8. PICK k2 \in Nat : k2 <= 54 /\ Totals(c2, 10 + k1 + k2)
  <2> DEFINE w == 2 + OrderWords(p) + BSliceWords(s)
  <2>1. Totals(<< OrderWords(p), BSliceWords(s) >>, w)
    BY <1>5, TotalTwo
  <2>2. w <= 54 /\ w \in Nat
    BY <1>5
  <2> HIDE DEF w
  <2>3. PICK k \in Nat : k <= w /\ Totals(c2, 10 + k1 + k)
    BY <1>7, <2>1, TotalOnly DEF c2
  <2>4. QED
    BY <2>2, <2>3
<1>9. PICK k3 \in Nat : k3 <= 9 /\ Totals(c3, 10 + k1 + k2 + k3)
  <2> DEFINE w == 1 + ListWords(s.l0)
  <2>1. Totals(<< ListWords(s.l0) >>, w)
    BY <1>5, TotalOne
  <2>2. w <= 9 /\ w \in Nat
    BY <1>5
  <2> HIDE DEF w
  <2>3. PICK k \in Nat : k <= w /\ Totals(c3, 10 + k1 + k2 + k)
    BY <1>8, <2>1, TotalOnly DEF c3
  <2>4. QED
    BY <2>2, <2>3
<1>10. PICK k4 \in Nat : k4 <= 33 /\ Totals(c4, 10 + k1 + k2 + k3 + k4)
  <2> DEFINE w == 1 + 2 * p.refs
  <2>1. Totals(<< 2 * p.refs >>, w)
    BY <1>5, TotalOne
  <2>2. w <= 33 /\ w \in Nat
    BY <1>5
  <2> HIDE DEF w
  <2>3. PICK k \in Nat : k <= w /\ Totals(c4, 10 + k1 + k2 + k3 + k)
    BY <1>9, <2>1, TotalOnly DEF c4
  <2>4. QED
    BY <2>2, <2>3
<1>11. Totals(<< WeightWords >>, 65)
  <2>1. Totals(<< 64 >>, 1 + 64)
    BY TotalOne
  <2>2. QED
    BY <1>4, <2>1
<1>12. PICK k5 \in Nat :
          k5 <= 65 /\ Totals(c5, 10 + k1 + k2 + k3 + k4 + k5)
  BY <1>10, <1>11, TotalOnly DEF c5
<1>13. PICK k6 \in Nat :
          k6 <= 65 /\ Totals(c6, 10 + k1 + k2 + k3 + k4 + k5 + k6)
  BY <1>11, <1>12, TotalOnly DEF c6
<1>14. Totals(c7, 10 + k1 + k2 + k3 + k4 + k5 + k6 + 13)
  <2>1. Totals(<< 10, 1 >>, 2 + 10 + 1)
    BY TotalTwo
  <2>2. QED
    BY <1>13, <2>1, TotalBoth
<1>15. /\ 10 + k1 + k2 + k3 + k4 + k5 + k6 + 13 \in Nat
       /\ 10 + k1 + k2 + k3 + k4 + k5 + k6 + 13 <= 306
  BY <1>7, <1>8, <1>9, <1>10, <1>12, <1>13
<1>16. QED
  BY <1>1, <1>14, <1>15

(* The commands of a slice, with r its first record and n words of chunks. *)
Laid(c, s, r, n) ==
    /\ s.to = s.from + 75 + n
    /\ Sits(c, s.from, [op |-> "header", save |-> r, restore |-> r + 8])
    /\ Sits(c, s.from + 4, [op |-> "skip", length |-> 46])
    /\ Sits(c, s.from + 5, [op |-> "lldma", record |-> r + 16])
    /\ Sits(c, s.from + 6, [op |-> "regs", pairs |-> 22])
    /\ Sits(c, s.from + 51, [op |-> "setup", size |-> s.size])
    /\ Sits(c, s.from + 54, [op |-> "lldma", record |-> r + 24])
    /\ Sits(c, s.from + 55, [op |-> "regs", pairs |-> 7])
    /\ Sits(c, s.from + 70, [op |-> "rendec", length |-> n + 3])
    /\ ChunksAt(c, s.from + 73, n)
    /\ Sits(c, s.from + 73 + n, [op |-> "separator"])
    /\ Sits(c, s.from + 74 + n, [op |-> "completion"])
    /\ ListAt(c, r, "save", 0, PreloadUnits, 4)
    /\ ListAt(c, r + 8, "restore", 0, PreloadUnits, 4)
    /\ ListAt(c, r + 16, "vlc", 0, VlcUnits, 2)
    /\ ListAt(c, r + 24, "bits", s.bits, s.size, 1)

(* Records stay where they are when a header is written below them.        *)
LEMMA ListHeaded ==
    ASSUME NEW c, Buffer(c), NEW d, Grows(c, d), c.idx < d.idx, Fits(d),
           NEW word, word.op # "dma", Measured(word),
           NEW r \in Nat, CmdWords <= r, NEW what, NEW at,
           NEW units \in Nat \ {0}, NEW width,
           ListAt(d, r, what, at, units, width)
    PROVE  ListAt(Header(d, c.idx, word), r, what, at, units, width)
<1>1. FullRecords(units) \in Nat /\ RecordWords = 8
  BY FullIs DEF RecordWords
<1>2. c.idx \in Nat /\ d.idx \in Nat
  BY DEF Grows, Buffer
<1>3. c.idx < CmdWords
  BY <1>2, CmdWordsNat DEF Fits
<1>4. ASSUME NEW j \in 0 .. FullRecords(units)
      PROVE  r + j * RecordWords # c.idx
  BY <1>1, <1>2, <1>3, CmdWordsNat
<1>5. \A a, w : a # c.idx /\ Sits(d, a, w)
                  => Sits(Header(d, c.idx, word), a, w)
  BY HeadedGrows
<1> DEFINE h == Header(d, c.idx, word)
<1> HIDE DEF h
<1>6. QED
  BY <1>4, <1>5 DEF ListAt, h

(* The front end's state and the VLC tables are one record each.            *)
LEMMA ShortLists ==
    /\ FullRecords(PreloadUnits) = 0 /\ PreloadUnits \in Nat \ {0}
    /\ FullRecords(VlcUnits) = 0 /\ VlcUnits \in Nat \ {0}
BY DEF FullRecords, PreloadUnits, VlcUnits, MaxDmaLen

(* The header names where the front end's state is saved and restored.     *)
LEMMA FeStateIs ==
    ASSUME NEW c, Buffer(c)
    PROVE  LET d == FeState(c)
               r == c.lldma
           IN  /\ Grows(c, d)
               /\ d.idx = c.idx + 4
               /\ d.lldma = r + 16
               /\ Fits(d) =>
                     /\ Sits(d, c.idx, [op |-> "header", save |-> r,
                                        restore |-> r + 8])
                     /\ ListAt(d, r, "save", 0, PreloadUnits, 4)
                     /\ ListAt(d, r + 8, "restore", 0, PreloadUnits, 4)
<1> DEFINE r == c.lldma
           save == Lldma(c, "save", 0, PreloadUnits, 4)
           both == Lldma(save, "restore", 0, PreloadUnits, 4)
           four == Words(both, 4)
           word == [op |-> "header", save |-> r, restore |-> save.lldma]
           d == FeState(c)
<1>1. /\ c.idx \in Nat /\ r \in Nat /\ CmdWords <= r
  BY DEF Buffer
<1>2. d = Header(four, c.idx, word)
  BY DEF FeState
<1>3. /\ Grows(c, save) /\ save.idx = c.idx
      /\ save.lldma = c.lldma + 8 * (FullRecords(PreloadUnits) + 1)
      /\ Fits(save) => ListAt(save, c.lldma, "save", 0, PreloadUnits, 4)
  BY ShortLists, LldmaIs
<1>4. save.lldma = r + 8
  BY <1>1, <1>3, ShortLists
<1> HIDE DEF save, d
<1>5. Buffer(save)
  BY <1>3 DEF Grows
<1>6. /\ Grows(save, both) /\ both.idx = save.idx
      /\ both.lldma = save.lldma + 8 * (FullRecords(PreloadUnits) + 1)
      /\ Fits(both) =>
            ListAt(both, save.lldma, "restore", 0, PreloadUnits, 4)
  BY <1>5, ShortLists, LldmaIs
<1>7. both.lldma = r + 16 /\ both.idx = c.idx
  BY <1>1, <1>3, <1>4, <1>6, ShortLists
<1> HIDE DEF both
<1>8. Buffer(both)
  BY <1>6 DEF Grows
<1>9. /\ Grows(both, four) /\ four.idx = both.idx + 4
      /\ four.lldma = both.lldma
  BY <1>8, WordsGrow
<1> HIDE DEF four
<1>10. /\ Grows(c, both) /\ Grows(c, four) /\ Grows(save, four)
  BY <1>3, <1>5, <1>6, <1>9, GrowsOn
<1>11. c.idx < four.idx /\ four.idx = c.idx + 4 /\ four.lldma = r + 16
  BY <1>1, <1>7, <1>9
<1>12. word.op # "dma" /\ Measured(word)
  BY DEF Measured
<1>13. word = [op |-> "header", save |-> r, restore |-> r + 8]
  BY <1>4
<1> HIDE DEF word
<1>14. /\ Grows(c, d) /\ d.idx = four.idx /\ d.lldma = four.lldma
       /\ Sits(d, c.idx, word)
  BY <1>2, <1>10, <1>11, <1>12, HeadedGrows
<1>15. ASSUME Fits(d)
       PROVE  /\ ListAt(d, r, "save", 0, PreloadUnits, 4)
              /\ ListAt(d, r + 8, "restore", 0, PreloadUnits, 4)
  <2>1. Fits(four) /\ Fits(both) /\ Fits(save)
    BY <1>1, <1>3, <1>7, <1>11, <1>14, <1>15, CmdWordsNat DEF Fits
  <2>2. /\ ListAt(four, r, "save", 0, PreloadUnits, 4)
        /\ ListAt(four, r + 8, "restore", 0, PreloadUnits, 4)
    BY <1>3, <1>4, <1>6, <1>9, <1>10, <2>1, ListKept
  <2>3. CmdWords <= r + 8 /\ r + 8 \in Nat
    BY <1>1, CmdWordsNat
  <2>4. ListAt(d, r, "save", 0, PreloadUnits, 4)
    BY <1>1, <1>2, <1>10, <1>11, <1>12, <2>1, <2>2, ShortLists, ListHeaded
  <2>5. ListAt(d, r + 8, "restore", 0, PreloadUnits, 4)
    BY <1>1, <1>2, <1>10, <1>11, <1>12, <2>1, <2>2, <2>3, ShortLists,
       ListHeaded
  <2>6. QED
    BY <2>4, <2>5
<1>16. QED
  BY <1>11, <1>13, <1>14, <1>15 DEF d

(* The VLC tables and their registers, which may be skipped.               *)
LEMMA VlcTablesAre ==
    ASSUME NEW c, Buffer(c)
    PROVE  LET d == VlcTables(c)
               r == c.lldma
           IN  /\ Grows(c, d)
               /\ d.idx = c.idx + 47
               /\ d.lldma = r + 8
               /\ Fits(d) =>
                     /\ Sits(d, c.idx, [op |-> "skip", length |-> 46])
                     /\ Sits(d, c.idx + 1, [op |-> "lldma", record |-> r])
                     /\ Sits(d, c.idx + 2, [op |-> "regs", pairs |-> 22])
                     /\ ListAt(d, r, "vlc", 0, VlcUnits, 2)
<1> DEFINE r == c.lldma
           one == Words(c, 1)
           table == LldmaCommand(one, "vlc", 0, VlcUnits, 2)
           regs == Registers(table, VlcRegisters)
           word == [op |-> "skip", length |-> SkipLength(c.idx, regs.idx)]
           d == VlcTables(c)
<1>1. /\ c.idx \in Nat /\ r \in Nat /\ CmdWords <= r
  BY DEF Buffer
<1>2. d = Header(regs, c.idx, word)
  BY DEF VlcTables
<1>3. Grows(c, one) /\ one.idx = c.idx + 1 /\ one.lldma = r
  BY WordsGrow
<1> HIDE DEF one, d
<1>4. Buffer(one)
  BY <1>3 DEF Grows
<1>5. /\ Grows(one, table) /\ table.idx = one.idx + 1
      /\ table.lldma = one.lldma + 8 * (FullRecords(VlcUnits) + 1)
      /\ Fits(table) =>
            /\ Sits(table, one.idx, [op |-> "lldma", record |-> one.lldma])
            /\ ListAt(table, one.lldma, "vlc", 0, VlcUnits, 2)
  BY <1>4, ShortLists, LldmaCommandIs
<1> HIDE DEF table
<1>6. Buffer(table)
  BY <1>5 DEF Grows
<1>7. VlcRegisters = 22 /\ VlcRegisters \in Nat
  BY DEF VlcRegisters
<1>8. /\ Grows(table, regs) /\ regs.idx = table.idx + 1 + 2 * VlcRegisters
      /\ regs.lldma = table.lldma
      /\ Sits(regs, table.idx, [op |-> "regs", pairs |-> VlcRegisters])
  BY <1>6, <1>7, RegistersAre
<1>9. SkipLength(c.idx, regs.idx) = regs.idx - (c.idx + 1)
  BY DEF SkipLength
<1> HIDE DEF regs
<1>10. Grows(one, regs)
  BY <1>4, <1>5, <1>8, GrowsOn
<1>11. Grows(c, regs)
  BY <1>3, <1>10, GrowsOn
<1>12. /\ table.idx = c.idx + 2 /\ regs.idx = c.idx + 47
       /\ regs.lldma = r + 8 /\ c.idx < regs.idx
  BY <1>1, <1>3, <1>5, <1>7, <1>8, ShortLists
<1>13. word = [op |-> "skip", length |-> 46]
  BY <1>1, <1>9, <1>12
<1>14. word.op # "dma" /\ Measured(word)
  BY <1>13 DEF Measured
<1> HIDE DEF word
<1>15. /\ Grows(c, d) /\ d.idx = regs.idx /\ d.lldma = regs.lldma
       /\ Sits(d, c.idx, word)
       /\ \A a, w : a # c.idx /\ Sits(regs, a, w) => Sits(d, a, w)
  BY <1>2, <1>11, <1>12, <1>14, HeadedGrows
<1>16. ASSUME Fits(d)
       PROVE  /\ Sits(d, c.idx + 1, [op |-> "lldma", record |-> r])
              /\ Sits(d, c.idx + 2, [op |-> "regs", pairs |-> 22])
              /\ ListAt(d, r, "vlc", 0, VlcUnits, 2)
  <2>1. Fits(regs) /\ Fits(table)
    BY <1>1, <1>12, <1>15, <1>16, CmdWordsNat DEF Fits
  <2>2. /\ Sits(regs, c.idx + 1, [op |-> "lldma", record |-> r])
        /\ Sits(regs, c.idx + 2, [op |-> "regs", pairs |-> 22])
    BY <1>3, <1>5, <1>7, <1>8, <1>12, <2>1 DEF Grows
  <2>3. ListAt(regs, r, "vlc", 0, VlcUnits, 2)
    BY <1>3, <1>5, <1>8, <2>1, ListKept
  <2>4. ListAt(d, r, "vlc", 0, VlcUnits, 2)
    BY <1>1, <1>2, <1>11, <1>12, <1>14, <2>1, <2>3, ShortLists, ListHeaded
  <2>5. c.idx + 1 # c.idx /\ c.idx + 2 # c.idx
    BY <1>1
  <2>6. QED
    BY <1>15, <2>2, <2>4, <2>5
<1>17. QED
  BY <1>12, <1>13, <1>15, <1>16 DEF d

(* The slice's data.                                                       *)
LEMMA BitstreamIs ==
    ASSUME NEW c, Buffer(c), NEW at, NEW size \in Nat \ {0}
    PROVE  LET d == Bitstream(c, at, size)
               r == c.lldma
           IN  /\ Grows(c, d)
               /\ d.idx = c.idx + 4
               /\ d.lldma = r + 8 * (FullRecords(size) + 1)
               /\ Fits(d) =>
                     /\ Sits(d, c.idx, [op |-> "setup", size |-> size])
                     /\ Sits(d, c.idx + 3, [op |-> "lldma", record |-> r])
                     /\ ListAt(d, r, "bits", at, size, 1)
<1> DEFINE r == c.lldma
           three == Words(c, 3)
           word == [op |-> "setup", size |-> size]
           setup == Header(three, c.idx, word)
           d == Bitstream(c, at, size)
<1>1. c.idx \in Nat /\ r \in Nat
  BY DEF Buffer
<1>2. d = LldmaCommand(setup, "bits", at, size, 1)
  BY DEF Bitstream
<1>3. Grows(c, three) /\ three.idx = c.idx + 3 /\ three.lldma = r
  BY WordsGrow
<1>4. word.op # "dma" /\ Measured(word)
  BY DEF Measured
<1> HIDE DEF three, word, d
<1>5. c.idx < three.idx
  BY <1>1, <1>3
<1>6. /\ Grows(c, setup) /\ setup.idx = c.idx + 3 /\ setup.lldma = r
      /\ Sits(setup, c.idx, word)
  BY <1>3, <1>4, <1>5, HeadedGrows
<1> HIDE DEF setup
<1>7. Buffer(setup)
  BY <1>6 DEF Grows
<1>8. /\ Grows(setup, d) /\ d.idx = setup.idx + 1
      /\ d.lldma = setup.lldma + 8 * (FullRecords(size) + 1)
      /\ Fits(d) =>
            /\ Sits(d, setup.idx, [op |-> "lldma", record |-> setup.lldma])
            /\ ListAt(d, setup.lldma, "bits", at, size, 1)
  BY <1>2, <1>7, LldmaCommandIs
<1>9. Grows(c, d)
  BY <1>6, <1>8, GrowsOn
<1>10. d.idx = c.idx + 4
  BY <1>1, <1>6, <1>8
<1>11. Fits(d) => Sits(d, c.idx, word)
  BY <1>6, <1>8 DEF Grows
<1>12. QED
  BY <1>6, <1>8, <1>9, <1>10, <1>11 DEF d, word

(* Chunks stay while more is written.                                      *)
LEMMA ChunksKept ==
    ASSUME NEW c, NEW d, Grows(c, d), Fits(d), NEW a, NEW n,
           ChunksAt(c, a, n)
    PROVE  ChunksAt(d, a, n)
BY DEF ChunksAt, Grows

(* A slice's commands stay while more is written.                          *)
LEMMA LaidKept ==
    ASSUME NEW c, NEW d, Grows(c, d), Fits(d), NEW s, NEW r, NEW n,
           Laid(c, s, r, n)
    PROVE  Laid(d, s, r, n)
<1>1. \A a, w : Sits(c, a, w) => Sits(d, a, w)
  BY DEF Grows
<1>2. ChunksAt(d, s.from + 73, n)
  BY ChunksKept DEF Laid
<1>3. /\ ListAt(d, r, "save", 0, PreloadUnits, 4)
      /\ ListAt(d, r + 8, "restore", 0, PreloadUnits, 4)
      /\ ListAt(d, r + 16, "vlc", 0, VlcUnits, 2)
      /\ ListAt(d, r + 24, "bits", s.bits, s.size, 1)
  BY ListKept DEF Laid
<1>4. QED
  BY <1>1, <1>2, <1>3 DEF Laid

(* The commands of a slice.                                                *)
LEMMA EncodedIs ==
    ASSUME NEW c, Buffer(c), NEW at,
           NEW p \in UNION {t.pictures : t \in Streams}, NEW s \in p.slices
    PROVE  LET d == Encoded(c, p, s, at)
           IN  /\ Grows(c, d)
               /\ d.lldma = c.lldma + 8 * (4 + FullRecords(s.size))
               /\ \E n \in Nat :
                     /\ n <= 306
                     /\ d.idx = c.idx + 75 + n
                     /\ \A sl : /\ Fits(d)
                                /\ sl.from = c.idx /\ sl.to = d.idx
                                /\ sl.bits = at /\ sl.size = s.size
                                => Laid(d, sl, c.lldma, n)
<1> DEFINE r == c.lldma
           i == c.idx
           chunks == Chunks(p, s)
           fe == FeState(c)
           vlc == VlcTables(fe)
           bits == Bitstream(vlc, at, s.size)
           regs == FrontEnd(bits)
           ren == Rendec(regs, chunks)
           d == Encoded(c, p, s, at)
           full == FullRecords(s.size)
<1>1. i \in Nat /\ r \in Nat
  BY DEF Buffer
<1>2. s.size \in Nat \ {0} /\ full \in Nat
  BY EncodeAssumption, FullIs
<1>3. d = Command(ren, "completion")
  BY DEF Encoded
<1>4. PICK n \in Nat : n <= 306 /\ Totals(chunks, n)
  BY ChunksFit
<1>5. PICK pos : Ends(chunks, pos) /\ pos[Len(chunks)] = n
  BY <1>4 DEF Totals
<1>6. /\ Grows(c, fe) /\ fe.idx = i + 4 /\ fe.lldma = r + 16
      /\ Fits(fe) =>
            /\ Sits(fe, i, [op |-> "header", save |-> r, restore |-> r + 8])
            /\ ListAt(fe, r, "save", 0, PreloadUnits, 4)
            /\ ListAt(fe, r + 8, "restore", 0, PreloadUnits, 4)
  BY FeStateIs
<1> HIDE DEF fe, d, chunks, full
<1>7. Buffer(fe)
  BY <1>6 DEF Grows
<1>8. /\ Grows(fe, vlc) /\ vlc.idx = fe.idx + 47 /\ vlc.lldma = fe.lldma + 8
      /\ Fits(vlc) =>
            /\ Sits(vlc, fe.idx, [op |-> "skip", length |-> 46])
            /\ Sits(vlc, fe.idx + 1, [op |-> "lldma", record |-> fe.lldma])
            /\ Sits(vlc, fe.idx + 2, [op |-> "regs", pairs |-> 22])
            /\ ListAt(vlc, fe.lldma, "vlc", 0, VlcUnits, 2)
  BY <1>7, VlcTablesAre
<1> HIDE DEF vlc
<1>9. Buffer(vlc)
  BY <1>8 DEF Grows
<1>10. /\ Grows(vlc, bits) /\ bits.idx = vlc.idx + 4
       /\ bits.lldma = vlc.lldma + 8 * (full + 1)
       /\ Fits(bits) =>
            /\ Sits(bits, vlc.idx, [op |-> "setup", size |-> s.size])
            /\ Sits(bits, vlc.idx + 3, [op |-> "lldma",
                                        record |-> vlc.lldma])
            /\ ListAt(bits, vlc.lldma, "bits", at, s.size, 1)
  BY <1>2, <1>9, BitstreamIs DEF full
<1> HIDE DEF bits
<1>11. Buffer(bits)
  BY <1>10 DEF Grows
<1>12. /\ Grows(bits, regs) /\ regs.idx = bits.idx + 1 + 2 * 7
       /\ regs.lldma = bits.lldma
       /\ Sits(regs, bits.idx, [op |-> "regs", pairs |-> 7])
  BY <1>11, RegistersAre DEF FrontEnd
<1> HIDE DEF regs
<1>13. Buffer(regs)
  BY <1>12 DEF Grows
<1>14. /\ Grows(regs, ren) /\ ren.idx = regs.idx + 4 + n
       /\ ren.lldma = regs.lldma
       /\ Fits(ren) =>
            /\ Sits(ren, regs.idx, [op |-> "rendec", length |-> n + 3])
            /\ ChunksAt(ren, regs.idx + 3, n)
            /\ Sits(ren, regs.idx + 3 + n, [op |-> "separator"])
  BY <1>5, <1>13, RendecIs
<1> HIDE DEF ren
<1>15. Buffer(ren)
  BY <1>14 DEF Grows
<1>16. /\ Grows(ren, d) /\ d.idx = ren.idx + 1 /\ d.lldma = ren.lldma
       /\ Sits(d, ren.idx, [op |-> "completion"])
  BY <1>3, <1>15, CommandIs
<1>17. Grows(regs, d)
  BY <1>13, <1>14, <1>16, GrowsOn
<1>18. Grows(bits, d)
  BY <1>11, <1>12, <1>17, GrowsOn
<1>19. Grows(vlc, d)
  BY <1>9, <1>10, <1>18, GrowsOn
<1>20. Grows(fe, d)
  BY <1>7, <1>8, <1>19, GrowsOn
<1>21. Grows(c, d)
  BY <1>6, <1>20, GrowsOn
<1>22. /\ fe.idx = i + 4 /\ vlc.idx = i + 51 /\ bits.idx = i + 55
       /\ regs.idx = i + 70 /\ ren.idx = i + 74 + n /\ d.idx = i + 75 + n
  <2>1. fe.idx = i + 4 /\ vlc.idx = i + 51 /\ bits.idx = i + 55
    BY <1>1, <1>6, <1>8, <1>10
  <2>2. regs.idx = i + 70
    BY <1>1, <1>12, <2>1
  <2>3. ren.idx = i + 74 + n
    BY <1>1, <1>14, <2>2
  <2>4. d.idx = i + 75 + n
    BY <1>1, <1>16, <2>3
  <2>5. QED
    BY <2>1, <2>2, <2>3, <2>4
<1>23. /\ fe.lldma = r + 16 /\ vlc.lldma = r + 24
       /\ d.lldma = r + 8 * (4 + full)
  <2>1. fe.lldma = r + 16 /\ vlc.lldma = r + 24
    BY <1>1, <1>6, <1>8
  <2>2. d.lldma = vlc.lldma + 8 * (full + 1)
    BY <1>10, <1>12, <1>14, <1>16
  <2>3. QED
    BY <1>1, <1>2, <2>1, <2>2
<1>24. ASSUME NEW sl, Fits(d), sl.from = i, sl.to = d.idx,
              sl.bits = at, sl.size = s.size
       PROVE  Laid(d, sl, r, n)
  <2>1. Fits(fe) /\ Fits(vlc) /\ Fits(bits) /\ Fits(ren)
    <3>1. d.idx < CmdWords
      BY <1>24 DEF Fits
    <3>2. QED
      BY <1>1, <1>22, <3>1, CmdWordsNat DEF Fits
  <2>2. /\ Sits(d, i, [op |-> "header", save |-> r, restore |-> r + 8])
        /\ ListAt(d, r, "save", 0, PreloadUnits, 4)
        /\ ListAt(d, r + 8, "restore", 0, PreloadUnits, 4)
    BY <1>6, <1>20, <1>24, <2>1, ListKept DEF Grows
  <2>3. /\ Sits(d, i + 4, [op |-> "skip", length |-> 46])
        /\ Sits(d, (i + 4) + 1, [op |-> "lldma", record |-> r + 16])
        /\ Sits(d, (i + 4) + 2, [op |-> "regs", pairs |-> 22])
        /\ ListAt(d, r + 16, "vlc", 0, VlcUnits, 2)
    BY <1>8, <1>19, <1>22, <1>23, <1>24, <2>1, ListKept DEF Grows
  <2>4. /\ Sits(d, i + 51, [op |-> "setup", size |-> s.size])
        /\ Sits(d, (i + 51) + 3, [op |-> "lldma", record |-> r + 24])
        /\ ListAt(d, r + 24, "bits", at, s.size, 1)
    BY <1>10, <1>18, <1>22, <1>23, <1>24, <2>1, ListKept DEF Grows
  <2>5. Sits(d, i + 55, [op |-> "regs", pairs |-> 7])
    BY <1>12, <1>17, <1>22, <1>24 DEF Grows
  <2>6. /\ Sits(d, i + 70, [op |-> "rendec", length |-> n + 3])
        /\ ChunksAt(d, (i + 70) + 3, n)
        /\ Sits(d, (i + 70) + 3 + n, [op |-> "separator"])
    BY <1>14, <1>16, <1>22, <1>24, <2>1, ChunksKept DEF Grows
  <2>7. Sits(d, i + 74 + n, [op |-> "completion"])
    BY <1>16, <1>22
  <2>8. /\ (i + 4) + 1 = i + 5 /\ (i + 4) + 2 = i + 6
        /\ (i + 51) + 3 = i + 54 /\ (i + 70) + 3 = i + 73
    BY <1>1
  <2>9. sl.to = sl.from + 75 + n
    BY <1>22, <1>24
  <2> HIDE DEF i, r
  <2>10. QED
    BY <1>24, <2>2, <2>3, <2>4, <2>5, <2>6, <2>7, <2>8, <2>9 DEF Laid
<1>25. QED
  BY <1>4, <1>21, <1>22, <1>23, <1>24 DEF d, full

(* A slice is at most so many words.                                       *)
SliceWords == 381

(* What a message says is in the buffer.                                   *)
Sent(c, m) ==
    /\ \E r \in Nat : \E n \in 0 .. SliceWords - 75 : Laid(c, m.slice, r, n)
    /\ Sits(c, m.record,
            [op |-> "dma", what |-> "copy", at |-> m.slice.from,
             units |-> m.slice.to - m.slice.from, next |-> None])
    /\ m.size = 4 * (m.slice.to - m.slice.from)

SliceRecord == [bits : Nat, size : Nat \ {0}, from : Nat, to : Nat]

Messages == [size : Nat, record : Nat, slice : SliceRecord]

Pictures == UNION {t.pictures : t \in Streams}

(* How far the cursors have come.                                          *)
Cursors ==
    /\ pc \in {"idle", "picture", "submit"}
    /\ picture \in Pictures \cup {NoPicture}
    /\ pc # "idle" => picture \in Pictures
    /\ count \in Nat
    /\ count <= picture.most
    /\ used \in Nat
    /\ used <= BitstreamSize
    /\ used % 16 = 0
    /\ cb.start <= cb.idx
    /\ written \in Nat
    /\ cb.idx <= SliceWords * written
    /\ written = 0 => cb.lldma = CmdWords
    /\ pc = "submit" => written # 0
    /\ written = count =>
         MaxDmaLen * (cb.lldma - CmdWords + (IF pc = "submit" THEN 8 ELSE 0))
            <= 8 * (MaxDmaLen * 5 * count + used)

(* The slice that is to be submitted.                                      *)
Waiting ==
    IF pc = "submit"
    THEN /\ count # 0
         /\ slice \in SliceRecord
         /\ slice.from = cb.start /\ slice.to = cb.idx
         /\ cb.start + 75 <= cb.idx
         /\ cb.idx <= cb.start + SliceWords
         /\ Fits(cb) => \E r \in Nat : \E n \in 0 .. SliceWords - 75 :
                            Laid(cb, slice, r, n)
    ELSE cb.start = cb.idx

(* The messages of the batch.                                              *)
Batched ==
    /\ msgs \in Seq(Messages)
    /\ Len(msgs) <= Batch
    /\ attached \in BOOLEAN
    /\ \A m \in Range(msgs) : m.size <= LargestSize
    /\ Fits(cb) => \A m \in Range(msgs) : Sent(cb, m)

(* The inductive invariant of the commands.                                *)
EncInv == Buffer(cb) /\ Cursors /\ Waiting /\ Batched

(* What a message was sent for stays as the buffer grows.                   *)
LEMMA SentKept ==
    ASSUME NEW c, NEW d, Grows(c, d), Fits(d), NEW m, Sent(c, m)
    PROVE  Sent(d, m)
<1>1. \A r, n : Laid(c, m.slice, r, n) => Laid(d, m.slice, r, n)
  BY LaidKept
<1>2. \A a, w : Sits(c, a, w) => Sits(d, a, w)
  BY DEF Grows
<1>3. QED
  BY <1>1, <1>2 DEF Sent

(* A buffer that is started over holds nothing.                            *)
LEMMA ClearedIs ==
    /\ Buffer(Cleared)
    /\ Cleared.idx = 0 /\ Cleared.start = 0 /\ Cleared.lldma = CmdWords
<1>1. /\ Cleared.idx = 0 /\ Cleared.start = 0 /\ Cleared.lldma = CmdWords
      /\ Cleared.mem = << >>
      /\ Cleared = [idx |-> 0, start |-> 0, lldma |-> CmdWords,
                    mem |-> << >>]
  BY DEF Cleared
<1>2. \A a : a \notin DOMAIN Cleared.mem
  BY <1>1
<1>3. QED
  BY <1>1, <1>2, CmdWordsNat DEF Buffer, At

(* The 0 that is written behind the commands disturbs none of them.        *)
LEMMA EndedIs ==
    ASSUME NEW c, Buffer(c)
    PROVE  LET d == [c EXCEPT !.mem = Overwritten(@, c.idx, c.idx + 1)]
           IN  Grows(c, d) /\ d.idx = c.idx /\ d.lldma = c.lldma
<1> DEFINE i == c.idx
           j == i + 1
           m == Overwritten(c.mem, i, j)
           d == [c EXCEPT !.mem = Overwritten(@, c.idx, c.idx + 1)]
<1>1. c.idx \in Nat /\ c.start \in Nat /\ c.lldma \in Nat
      /\ CmdWords <= c.lldma
  BY DEF Buffer
<1>2. d = [idx |-> i, start |-> c.start, lldma |-> c.lldma, mem |-> m]
  <2>1. c = [idx |-> c.idx, start |-> c.start, lldma |-> c.lldma,
             mem |-> c.mem]
    BY DEF Buffer
  <2> HIDE DEF m
  <2>2. d = [c EXCEPT !.mem = m]
    BY DEF m
  <2> HIDE DEF d
  <2>3. QED
    BY <2>1, <2>2
<1>3. /\ d.idx = i /\ d.start = c.start /\ d.lldma = c.lldma
      /\ d.mem = m
  BY <1>2
<1>4. \A a, w : At(d, a, w) <=>
                 At(c, a, w) /\ (a + Extent(w) <= i \/ a >= j)
  <2> HIDE DEF d
  <2>1. i \in Nat /\ j \in Nat
    BY <1>1
  <2>2. \A a, w : (a \in DOMAIN m /\ m[a] = w)
              <=> /\ a \in DOMAIN c.mem /\ c.mem[a] = w
                  /\ a + Extent(w) <= i \/ a >= j
    <3> HIDE DEF i, j
    <3>1. QED
      BY <2>1, OverwrittenIs
  <2> HIDE DEF m, i, j
  <2>3. QED
    BY <1>3, <2>2 DEF At
<1> HIDE DEF d, m
<1>5. Buffer(d)
  <2>1. \A a, w : At(d, a, w) => Behind(c, a, w) /\ Measured(w)
    BY <1>4 DEF Buffer
  <2>2. \A a, w : Behind(c, a, w) => Behind(d, a, w)
    BY <1>1, <1>3 DEF Behind
  <2>3. QED
    BY <1>1, <1>2, <1>3, <2>1, <2>2 DEF Buffer
<1>6. ASSUME Fits(d), NEW a, NEW w, Sits(c, a, w)
      PROVE  Sits(d, a, w)
  <2>1. a \in Nat /\ Extent(w) \in Nat /\ At(c, a, w)
    BY <1>6, ExtentIs DEF Sits, Buffer, Behind
  <2>2. \/ a + Extent(w) <= i
        \/ CmdWords <= a /\ a + Extent(w) <= c.lldma
    BY <1>6 DEF Sits
  <2>3. i < CmdWords
    BY <1>3, <1>6 DEF Fits
  <2>4. a + Extent(w) <= i \/ a >= i + 1
    BY <1>1, <2>1, <2>2, <2>3, CmdWordsNat
  <2>5. At(d, a, w)
    BY <1>4, <2>1, <2>4
  <2>6. QED
    BY <1>3, <2>2, <2>5 DEF Sits
<1>7. Grows(c, d)
  BY <1>1, <1>3, <1>5, <1>6 DEF Grows
<1>8. QED
  BY <1>3, <1>7 DEF d

(* The next commands go behind the last.                                   *)
LEMMA AdvancedIs ==
    ASSUME NEW c, Buffer(c)
    PROVE  /\ Buffer(Advanced(c))
           /\ Advanced(c).idx = c.idx /\ Advanced(c).start = c.idx
           /\ Advanced(c).lldma = c.lldma
           /\ \A a, w : Sits(Advanced(c), a, w) <=> Sits(c, a, w)
<1> DEFINE d == Advanced(c)
<1>1. c.idx \in Nat /\ c.start \in Nat /\ c.lldma \in Nat
      /\ CmdWords <= c.lldma
  BY DEF Buffer
<1>2. d = [idx |-> c.idx, start |-> c.idx, lldma |-> c.lldma,
           mem |-> c.mem]
  <2>1. c = [idx |-> c.idx, start |-> c.start, lldma |-> c.lldma,
             mem |-> c.mem]
    BY DEF Buffer
  <2>2. d = [c EXCEPT !.start = c.idx]
    BY DEF Advanced
  <2>3. QED
    BY <2>1, <2>2
<1>3. /\ d.idx = c.idx /\ d.start = c.idx /\ d.lldma = c.lldma
      /\ d.mem = c.mem
  BY <1>2
<1> HIDE DEF d
<1>4. \A a, w : At(d, a, w) <=> At(c, a, w)
  BY <1>3 DEF At
<1>5. \A a, w : Sits(d, a, w) <=> Sits(c, a, w)
  BY <1>3, <1>4 DEF Sits
<1>6. Buffer(d)
  <2>1. \A a, w : At(d, a, w) => Behind(c, a, w) /\ Measured(w)
    BY <1>4 DEF Buffer
  <2>2. \A a, w : Behind(c, a, w) => Behind(d, a, w)
    BY <1>3 DEF Behind
  <2>3. QED
    BY <1>1, <1>2, <1>3, <2>1, <2>2 DEF Buffer
<1>7. QED
  BY <1>3, <1>5, <1>6 DEF d

(* What a message was sent for stays where nothing is moved.                *)
LEMMA SentAdvanced ==
    ASSUME NEW c, NEW d, \A a, w : Sits(d, a, w) <=> Sits(c, a, w),
           NEW m, Sent(c, m)
    PROVE  Sent(d, m)
<1>1. ASSUME NEW r, NEW n, Laid(c, m.slice, r, n)
      PROVE  Laid(d, m.slice, r, n)
  <2>1. ChunksAt(d, m.slice.from + 73, n)
    BY <1>1 DEF Laid, ChunksAt
  <2>2. /\ ListAt(d, r, "save", 0, PreloadUnits, 4)
        /\ ListAt(d, r + 8, "restore", 0, PreloadUnits, 4)
        /\ ListAt(d, r + 16, "vlc", 0, VlcUnits, 2)
        /\ ListAt(d, r + 24, "bits", m.slice.bits, m.slice.size, 1)
    BY <1>1 DEF Laid, ListAt
  <2>3. QED
    BY <1>1, <2>1, <2>2 DEF Laid
<1>2. QED
  BY <1>1 DEF Sent

(* The next slice's bits start at a multiple of 16 inside the bitstream     *)
(* buffer.                                                                  *)
LEMMA RoundedIs ==
    ASSUME NEW u \in Nat, u % 16 = 0, NEW size \in Nat,
           u + size <= BitstreamSize
    PROVE  /\ Rounded(size) \in Nat
           /\ size <= Rounded(size)
           /\ u + Rounded(size) <= BitstreamSize
           /\ (u + Rounded(size)) % 16 = 0
<1>1. BitstreamSize = 16 * 262144
  BY DEF BitstreamSize
<1>2. PICK v \in Nat : u = 16 * v
  <2>1. u = 16 * (u \div 16) /\ u \div 16 \in Nat
    OBVIOUS
  <2>2. QED
    BY <2>1
<1> DEFINE k == (size + 15) \div 16
<1>3. k \in Nat /\ 16 * k <= size + 15 /\ size <= 16 * k
  OBVIOUS
<1>4. Rounded(size) = 16 * k
  BY DEF Rounded
<1> HIDE DEF k
<1>5. v + k <= 262144
  BY <1>1, <1>2, <1>3
<1>6. u + 16 * k = 16 * (v + k) /\ 16 * k \in Nat /\ v + k \in Nat
  BY <1>2, <1>3
<1>7. \A x \in Nat : (16 * x) % 16 = 0
  OBVIOUS
<1>8. QED
  BY <1>1, <1>3, <1>4, <1>5, <1>6, <1>7
-----------------------------------------------------------------------------
(* The commands start with an empty buffer.                                 *)
LEMMA EncStarts == Init => EncInv
<1> SUFFICES ASSUME Init PROVE EncInv
  OBVIOUS
<1>1. /\ pc = "idle" /\ picture = NoPicture /\ count = 0 /\ used = 0
      /\ cb = Cleared /\ msgs = << >> /\ attached = FALSE /\ written = 0
  BY DEF Init, EncodeInit
<1>2. NoPicture.most = 0
  BY DEF NoPicture
<1>3. Cursors
  BY <1>1, <1>2, ClearedIs
  DEF Cursors, BitstreamSize, SliceWords, MaxDmaLen, CmdWords, CmdSize
<1>4. Waiting
  BY <1>1, ClearedIs DEF Waiting
<1>5. msgs \in Seq(Messages) /\ Len(msgs) = 0 /\ Range(msgs) = {}
  <2>1. msgs \in Seq(Messages) /\ Len(msgs) = 0 /\ DOMAIN msgs = {}
    BY <1>1
  <2>2. QED
    BY <2>1 DEF Range
<1>6. attached \in BOOLEAN /\ Batch \in Nat
  BY <1>1, EncodeAssumption
<1>7. Batched
  BY <1>5, <1>6 DEF Batched
<1>8. QED
  BY <1>1, <1>3, <1>4, <1>7, ClearedIs DEF EncInv

(* A picture begins: its commands go behind what is already there.          *)
LEMMA EncBegins ==
    ASSUME EncInv, stream \in Streams, NEW p \in stream.pictures,
           BeginPicture(p)
    PROVE  EncInv'
<1>1. /\ pc = "idle" /\ pc' = "picture" /\ picture' = p /\ count' = 0
      /\ used' = 0 /\ UNCHANGED <<cb, slice, msgs, attached, written>>
  BY DEF BeginPicture
<1>2. p \in Pictures
  BY DEF Pictures
<1>3. p.most \in Nat
  BY <1>2, EncodeAssumption DEF Pictures
<1>4. Buffer(cb)' /\ cb'.idx = cb.idx /\ cb'.start = cb.start
  BY <1>1 DEF EncInv
<1>5. cb.start = cb.idx /\ cb.idx \in Nat
  BY <1>1 DEF EncInv, Waiting, Buffer
<1>6. Cursors'
  <2>1. /\ written \in Nat /\ cb.idx <= SliceWords * written
        /\ written = 0 => cb.lldma = CmdWords
    BY DEF EncInv, Cursors
  <2>2. written' = count' =>
          MaxDmaLen * (cb'.lldma - CmdWords + 0)
             <= 8 * (MaxDmaLen * 5 * count' + used')
    BY <1>1, <2>1 DEF MaxDmaLen, CmdWords, CmdSize
  <2>3. QED
    BY <1>1, <1>2, <1>3, <1>4, <1>5, <2>1, <2>2 DEF Cursors, BitstreamSize
<1>7. Waiting'
  BY <1>1, <1>4, <1>5 DEF Waiting
<1>8. Batched'
  BY <1>1 DEF EncInv, Batched
<1>9. QED
  BY <1>4, <1>6, <1>7, <1>8 DEF EncInv

(* The batch is sent and no message is left, or the picture ends without.  *)
LEMMA BatchSent ==
    ASSUME EncInv, msgs' \in {<< >>, msgs}, attached' \in {FALSE, attached},
           UNCHANGED <<picture, count, used, cb, slice, written>>,
           \/ pc' = pc
           \/ pc = "picture" /\ pc' = "idle"
    PROVE  EncInv'
<1>1. Buffer(cb)'
  BY DEF EncInv
<1>2. Cursors'
  <2>1. CASE pc' = pc
    BY <2>1 DEF EncInv, Cursors
  <2>2. CASE pc = "picture" /\ pc' = "idle"
    BY <2>2 DEF EncInv, Cursors
  <2>3. QED
    BY <2>1, <2>2
<1>3. Waiting'
  <2>1. CASE pc' = pc
    BY <2>1 DEF EncInv, Waiting
  <2>2. CASE pc = "picture" /\ pc' = "idle"
    BY <2>2 DEF EncInv, Waiting
  <2>3. QED
    BY <2>1, <2>2
<1>4. Batched'
  <2>1. CASE msgs' = << >>
    <3>1. msgs' \in Seq(Messages) /\ Len(msgs') = 0 /\ DOMAIN msgs' = {}
      BY <2>1
    <3>2. Range(msgs') = {}
      BY <3>1 DEF Range
    <3>3. attached' \in BOOLEAN
      BY DEF EncInv, Batched
    <3>4. QED
      BY <3>1, <3>2, <3>3, EncodeAssumption DEF Batched
  <2>2. CASE msgs' = msgs
    BY <2>2 DEF EncInv, Batched
  <2>3. QED
    BY <2>1, <2>2
<1>5. QED
  BY <1>1, <1>2, <1>3, <1>4 DEF EncInv

(* A slice is written behind what the buffer holds, or in a buffer that is *)
(* started over.                                                           *)
LEMMA EncSlice ==
    ASSUME EncInv, NEW s \in picture.slices, Slice(s)
    PROVE  EncInv'
<1> DEFINE c == NextCmdbuf
           d == Encoded(c, picture, s, used)
           full == FullRecords(s.size)
<1>1. /\ pc = "picture" /\ pc' = "submit" /\ count < picture.most
      /\ used + s.size <= BitstreamSize
      /\ cb' = d
      /\ slice' = [bits |-> used, size |-> s.size, from |-> c.start,
                   to |-> cb'.idx]
      /\ used' = used + Rounded(s.size) /\ count' = count + 1
      /\ attached' = TRUE
      /\ written' = IF msgs = << >> THEN 1 ELSE written + 1
      /\ UNCHANGED <<picture, msgs>>
  BY DEF Slice
<1>2. picture \in Pictures /\ s.size \in Nat \ {0} /\ picture.most \in Nat
  <2>1. picture \in Pictures
    BY <1>1 DEF EncInv, Cursors
  <2>2. QED
    BY <2>1, EncodeAssumption DEF Pictures
<1>3. /\ Buffer(cb) /\ cb.start = cb.idx /\ count \in Nat /\ used \in Nat
      /\ used % 16 = 0 /\ written \in Nat
  BY <1>1 DEF EncInv, Cursors, Waiting
<1>4. full \in Nat /\ MaxDmaLen * full < s.size
  BY <1>2, FullIs
<1>5. /\ Buffer(c) /\ c.start = c.idx
      /\ written' \in Nat \ {0}
      /\ c.idx <= SliceWords * (written' - 1)
      /\ written' = count' =>
            MaxDmaLen * (c.lldma - CmdWords)
               <= 8 * (MaxDmaLen * 5 * count + used)
  <2>1. CASE msgs = << >>
    <3>1. c = Cleared /\ written' = 1
      BY <1>1, <2>1 DEF NextCmdbuf
    <3>2. c.idx = 0 /\ c.lldma - CmdWords = 0
      BY <3>1, ClearedIs, CmdWordsNat
    <3>3. 0 <= SliceWords * 0 /\ 0 <= 8 * (MaxDmaLen * 5 * count + used)
      BY <1>3 DEF SliceWords, MaxDmaLen
    <3>4. MaxDmaLen * 0 = 0
      BY DEF MaxDmaLen
    <3>5. QED
      BY <3>1, <3>2, <3>3, <3>4, ClearedIs
  <2>2. CASE msgs # << >>
    <3>1. c = cb /\ written' = written + 1
      BY <1>1, <2>2 DEF NextCmdbuf
    <3>2. written' = count' => written = count
      BY <1>1, <1>3, <3>1
    <3>3. cb.lldma - CmdWords + 0 = cb.lldma - CmdWords
      BY <1>3, CmdWordsNat DEF Buffer
    <3>4. /\ cb.idx <= SliceWords * written
          /\ written = count =>
                MaxDmaLen * (cb.lldma - CmdWords + 0)
                   <= 8 * (MaxDmaLen * 5 * count + used)
      BY <1>1 DEF EncInv, Cursors
    <3>5. written' \in Nat \ {0} /\ written' - 1 = written
      BY <1>3, <3>1
    <3>6. QED
      BY <1>3, <3>1, <3>2, <3>3, <3>4, <3>5
  <2>3. QED
    BY <2>1, <2>2
<1> HIDE DEF c, d, full
<1>6. /\ Grows(c, d) /\ d.lldma = c.lldma + 8 * (4 + full)
      /\ \E n \in Nat :
            /\ n <= 306
            /\ d.idx = c.idx + 75 + n
            /\ \A sl : /\ Fits(d)
                       /\ sl.from = c.idx /\ sl.to = d.idx
                       /\ sl.bits = used /\ sl.size = s.size
                       => Laid(d, sl, c.lldma, n)
  <2>1. Buffer(c)
    BY <1>5
  <2>2. picture \in UNION {t.pictures : t \in Streams}
    BY <1>2 DEF Pictures
  <2>3. QED
    BY <2>1, <2>2, EncodedIs DEF d, full
<1>7. PICK n \in Nat :
         /\ n <= 306
         /\ d.idx = c.idx + 75 + n
         /\ \A sl : /\ Fits(d)
                    /\ sl.from = c.idx /\ sl.to = d.idx
                    /\ sl.bits = used /\ sl.size = s.size
                    => Laid(d, sl, c.lldma, n)
  BY <1>6
<1>8. /\ c.idx \in Nat /\ c.lldma \in Nat /\ d.idx \in Nat
      /\ d.lldma \in Nat /\ d.start = c.start /\ Buffer(d)
  BY <1>5, <1>6 DEF Grows, Buffer
<1>9. /\ Rounded(s.size) \in Nat /\ s.size <= Rounded(s.size)
      /\ used' <= BitstreamSize /\ used' % 16 = 0 /\ used' \in Nat
  <2> DEFINE size == s.size
  <2>1. size \in Nat /\ used + size <= BitstreamSize
    BY <1>1, <1>2
  <2>2. used' = used + Rounded(size)
    BY <1>1
  <2> HIDE DEF size
  <2>3. /\ Rounded(size) \in Nat /\ size <= Rounded(size)
        /\ used + Rounded(size) <= BitstreamSize
        /\ (used + Rounded(size)) % 16 = 0
    BY <1>3, <2>1, RoundedIs, Zenon
  <2>4. used + Rounded(size) \in Nat
    <3>1. used \in Nat
      BY <1>3
    <3>2. Rounded(size) \in Nat
      BY <2>3
    <3>3. QED
      BY <3>1, <3>2
  <2>5. QED
    BY <2>2, <2>3, <2>4, Zenon DEF size
<1>10. d.idx <= SliceWords * written'
  BY <1>5, <1>7, <1>8 DEF SliceWords
<1>11. ASSUME written' = count'
       PROVE  MaxDmaLen * (d.lldma - CmdWords + 8)
                 <= 8 * (MaxDmaLen * 5 * (count + 1) + used')
  <2>1. d.lldma - CmdWords + 8 = (c.lldma - CmdWords) + 8 * (5 + full)
    BY <1>4, <1>6, <1>8, CmdWordsNat
  <2>2. used' = used + Rounded(s.size)
    BY <1>1
  <2>3. s.size \in Nat
    BY <1>2
  <2>4. QED
    <3> DEFINE x == c.lldma - CmdWords
               R == Rounded(s.size)
               z == s.size
    <3>1. /\ x \in Int /\ R \in Nat /\ z \in Nat /\ z <= R
          /\ MaxDmaLen * x <= 8 * (MaxDmaLen * 5 * count + used)
          /\ MaxDmaLen * full < z /\ full \in Nat /\ count \in Nat
          /\ used \in Nat
      BY <1>3, <1>4, <1>5, <1>8, <1>9, <1>11, <2>3, CmdWordsNat
    <3> HIDE DEF x, R, z
    <3>2. MaxDmaLen * (x + 8 * (5 + full))
             <= 8 * (MaxDmaLen * 5 * (count + 1) + (used + R))
      BY <3>1 DEF MaxDmaLen
    <3>3. QED
      BY <2>1, <2>2, <3>2 DEF x, R
<1>12. Cursors'
  <2>1. count + 1 \in Nat /\ count + 1 <= picture.most /\ count + 1 # 0
    BY <1>1, <1>2, <1>3
  <2>2. cb'.start <= cb'.idx
    BY <1>1, <1>5, <1>7, <1>8
  <2>3. /\ cb'.idx <= SliceWords * written'
        /\ written' = count' =>
              MaxDmaLen * (cb'.lldma - CmdWords + 8)
                 <= 8 * (MaxDmaLen * 5 * count' + used')
    BY <1>1, <1>10, <1>11
  <2>4. QED
    BY <1>1, <1>2, <1>5, <1>9, <2>1, <2>2, <2>3 DEF Cursors
<1>13. Waiting'
  <2>1. /\ slice'.bits = used /\ slice'.size = s.size
        /\ slice'.from = c.idx /\ slice'.to = d.idx
        /\ slice' \in SliceRecord
    BY <1>1, <1>2, <1>3, <1>5, <1>8 DEF SliceRecord
  <2>2. Fits(d) => Laid(d, slice', c.lldma, n)
    BY <1>7, <2>1
  <2>3. n \in 0 .. SliceWords - 75
    BY <1>7 DEF SliceWords
  <2>4. count + 1 # 0
    BY <1>3
  <2>5. c.idx + 75 <= d.idx /\ d.idx <= c.idx + SliceWords
    BY <1>7, <1>8 DEF SliceWords
  <2>6. QED
    BY <1>1, <1>5, <1>8, <2>1, <2>2, <2>3, <2>4, <2>5 DEF Waiting
<1>14. Batched'
  <2>1. Fits(d) => \A m \in Range(msgs) : Sent(d, m)
    <3>1. CASE msgs = << >>
      BY <3>1 DEF Range
    <3>2. CASE msgs # << >>
      <4>1. c = cb
        BY <3>2 DEF c, NextCmdbuf
      <4>2. Fits(d) => Fits(c)
        BY <1>6, <1>8, CmdWordsNat DEF Grows, Fits
      <4>3. QED
        BY <1>6, <4>1, <4>2, SentKept DEF EncInv, Batched
    <3>3. QED
      BY <3>1, <3>2
  <2>2. count' # 0
    BY <1>1, <1>3
  <2>3. QED
    BY <1>1, <2>1, <2>2 DEF EncInv, Batched
<1>15. QED
  BY <1>1, <1>8, <1>12, <1>13, <1>14 DEF EncInv

(* The slice is submitted: a record that copies it, and a message.         *)
LEMMA EncSubmit ==
    ASSUME EncInv, Submit
    PROVE  EncInv'
<1> DEFINE k == cb.idx - cb.start
           bytes == 4 * k
           ended == [cb EXCEPT !.mem = Overwritten(@, cb.idx, cb.idx + 1)]
           copied == Lldma(ended, "copy", cb.start, bytes \div 4, 1)
           e == [size |-> SizeField(bytes), record |-> cb.lldma,
                 slice |-> slice]
<1>1. /\ pc = "submit" /\ pc' = "picture" /\ ~ BatchFull
      /\ msgs' = Append(msgs, e) /\ cb' = Advanced(copied)
      /\ UNCHANGED <<picture, count, used, slice, attached, written>>
  BY DEF Submit
<1>2. /\ Buffer(cb) /\ count # 0 /\ slice \in SliceRecord
      /\ slice.from = cb.start /\ slice.to = cb.idx
      /\ cb.start + 75 <= cb.idx
      /\ cb.idx <= cb.start + SliceWords
  BY <1>1 DEF EncInv, Waiting
<1>3. cb.idx \in Nat /\ cb.start \in Nat /\ cb.lldma \in Nat
  BY <1>2 DEF Buffer
<1>4. k \in Nat \ {0} /\ k <= 381 /\ bytes \div 4 = k
  BY <1>2, <1>3 DEF SliceWords
<1>5. FullRecords(k) = 0
  BY <1>4 DEF FullRecords, MaxDmaLen
<1>6. SizeField(bytes) = 4 * k /\ 4 * k \in Nat /\ 4 * k <= LargestSize
  BY <1>4 DEF SizeField, LargestSize
<1>7. Grows(cb, ended) /\ ended.idx = cb.idx /\ ended.lldma = cb.lldma
  BY <1>2, EndedIs
<1> HIDE DEF ended
<1>8. Buffer(ended)
  BY <1>7 DEF Grows
<1>9. copied = Lldma(ended, "copy", cb.start, k, 1)
  BY <1>4
<1> HIDE DEF copied
<1>10. /\ Grows(ended, copied) /\ copied.idx = ended.idx
       /\ copied.lldma = ended.lldma + 8 * (FullRecords(k) + 1)
       /\ Fits(copied) => ListAt(copied, ended.lldma, "copy", cb.start, k, 1)
  <2> HIDE DEF k
  <2>1. QED
    BY <1>4, <1>8, <1>9, LldmaIs
<1>11. /\ Grows(cb, copied) /\ copied.idx = cb.idx
       /\ copied.lldma = cb.lldma + 8 /\ Buffer(copied)
       /\ copied.start = cb.start
  <2>1. Grows(cb, copied)
    BY <1>2, <1>7, <1>10, GrowsOn
  <2>2. Buffer(copied) /\ copied.start = cb.start
    BY <2>1 DEF Grows
  <2>3. copied.lldma = cb.lldma + 8
    BY <1>3, <1>5, <1>7, <1>10
  <2>4. QED
    BY <1>7, <1>10, <2>1, <2>2, <2>3
<1>12. /\ Buffer(cb') /\ cb'.idx = cb.idx /\ cb'.start = cb.idx
       /\ cb'.lldma = cb.lldma + 8
       /\ \A a, w : Sits(cb', a, w) <=> Sits(copied, a, w)
  BY <1>1, <1>11, AdvancedIs
<1>13. Cursors'
  <2>1. /\ cb.lldma - CmdWords + 8 = cb'.lldma - CmdWords + 0
        /\ cb'.start <= cb'.idx
    BY <1>3, <1>12, CmdWordsNat
  <2>2. /\ cb.idx <= SliceWords * written /\ written # 0
        /\ written = count =>
              MaxDmaLen * (cb.lldma - CmdWords + 8)
                 <= 8 * (MaxDmaLen * 5 * count + used)
    BY <1>1 DEF EncInv, Cursors
  <2>3. written = count =>
          MaxDmaLen * (cb'.lldma - CmdWords + 0)
             <= 8 * (MaxDmaLen * 5 * count + used)
    BY <2>1, <2>2
  <2>4. QED
    BY <1>1, <1>2, <1>12, <2>1, <2>2, <2>3 DEF EncInv, Cursors
<1>14. Waiting'
  BY <1>1, <1>12 DEF Waiting
<1>15. /\ e.size = 4 * k /\ e.record = cb.lldma /\ e.slice = slice
       /\ e \in Messages
  BY <1>2, <1>3, <1>6 DEF Messages
<1> HIDE DEF e
<1>16. ASSUME Fits(cb')
       PROVE  Sent(cb', e)
  <2>1. Fits(cb) /\ Fits(copied)
    BY <1>11, <1>12, <1>16 DEF Fits
  <2>2. PICK r \in Nat : \E n \in 0 .. SliceWords - 75 : Laid(cb, slice, r, n)
    BY <1>1, <2>1 DEF EncInv, Waiting
  <2>3. PICK n \in 0 .. SliceWords - 75 : Laid(cb, slice, r, n)
    BY <2>2
  <2>4. Laid(copied, slice, r, n)
    BY <1>11, <2>1, <2>3, LaidKept
  <2>5. Sits(copied, cb.lldma,
             [op |-> "dma", what |-> "copy", at |-> cb.start,
              units |-> k, next |-> None])
    <3>1. ListAt(copied, cb.lldma, "copy", cb.start, k, 1)
      BY <1>7, <1>10, <2>1
    <3>2. Sits(copied, cb.lldma + 0 * RecordWords,
               Part(cb.lldma, "copy", cb.start, k, 1, 0))
      <4> HIDE DEF k
      <4>1. 0 \in 0 .. FullRecords(k)
        BY <1>5
      <4>2. QED
        BY <3>1, <4>1 DEF ListAt
    <3>3. cb.lldma + 0 * RecordWords = cb.lldma
      BY <1>3 DEF RecordWords
    <3>4. Part(cb.lldma, "copy", cb.start, k, 1, 0)
            = [op |-> "dma", what |-> "copy", at |-> cb.start,
               units |-> k, next |-> None]
      <4>1. cb.start + 0 * MaxDmaLen * 1 = cb.start
        BY <1>3 DEF MaxDmaLen
      <4>2. k - 0 * MaxDmaLen = k
        BY <1>4 DEF MaxDmaLen
      <4>3. ~ (0 < FullRecords(k))
        BY <1>5
      <4> HIDE DEF k
      <4>4. QED
        BY <4>1, <4>2, <4>3 DEF Part
    <3>5. QED
      BY <3>2, <3>3, <3>4
  <2>6. Sent(copied, e)
    <3>1. e.slice.to - e.slice.from = k
      BY <1>2, <1>15
    <3>2. QED
      BY <1>2, <1>15, <2>4, <2>5, <3>1 DEF Sent
  <2>7. QED
    BY <1>12, <2>6, SentAdvanced
<1>17. ASSUME Fits(cb'), NEW m \in Range(msgs)
       PROVE  Sent(cb', m)
  <2>1. Fits(cb) /\ Fits(copied)
    BY <1>11, <1>12, <1>17 DEF Fits
  <2>2. Sent(cb, m)
    BY <2>1 DEF EncInv, Batched
  <2>3. Sent(copied, m)
    BY <1>11, <2>1, <2>2, SentKept
  <2>4. QED
    BY <1>12, <2>3, SentAdvanced
<1>18. /\ msgs' \in Seq(Messages) /\ Len(msgs') = Len(msgs) + 1
       /\ Range(msgs') = Range(msgs) \cup {e}
  <2>1. msgs \in Seq(Messages)
    BY DEF EncInv, Batched
  <2>2. /\ msgs' \in Seq(Messages) /\ Len(msgs') = Len(msgs) + 1
        /\ Len(msgs) \in Nat
        /\ \A i \in 1 .. Len(msgs) : msgs'[i] = msgs[i]
        /\ msgs'[Len(msgs) + 1] = e
    BY <1>1, <1>15, <2>1
  <2>3. DOMAIN msgs = 1 .. Len(msgs) /\ DOMAIN msgs' = 1 .. Len(msgs) + 1
    BY <2>1, <2>2
  <2>4. QED
    BY <2>2, <2>3 DEF Range
<1>19. Len(msgs') <= Batch
  <2>1. msgs \in Seq(Messages) /\ ~ (Len(msgs) >= Batch)
    BY <1>1 DEF EncInv, Batched, BatchFull
  <2>2. Len(msgs) \in Nat
    BY <2>1
  <2>3. QED
    BY <1>18, <2>1, <2>2, EncodeAssumption
<1>20. \A m \in Range(msgs') : m.size <= LargestSize
  BY <1>6, <1>15, <1>18 DEF EncInv, Batched
<1>21. Batched'
  BY <1>1, <1>16, <1>17, <1>18, <1>19, <1>20 DEF EncInv, Batched
<1>22. QED
  BY <1>12, <1>13, <1>14, <1>21 DEF EncInv

(* Nothing happens to the commands.                                        *)
LEMMA EncStays ==
    ASSUME EncInv, UNCHANGED encodeVars
    PROVE  EncInv'
<1>1. UNCHANGED <<pc, picture, count, used, cb, slice, msgs, attached,
                  written>>
  BY DEF encodeVars
<1>2. Buffer(cb)'
  BY <1>1 DEF EncInv
<1>3. Cursors' /\ Waiting'
  BY <1>1 DEF EncInv, Cursors, Waiting
<1>4. Batched'
  BY <1>1 DEF EncInv, Batched
<1>5. QED
  BY <1>2, <1>3, <1>4 DEF EncInv

(* EncInv is an invariant.                                                 *)
THEOREM Encodes == Spec => []EncInv
<1>1. ASSUME IInv, EncInv, [Next]_vars
      PROVE  EncInv'
  <2>0. stream \in Streams
    BY <1>1 DEF IInv, Types
  <2>1. ASSUME NEW p \in stream.pictures, Begin(p)
        PROVE  EncInv'
    BY <1>1, <2>0, <2>1, EncBegins DEF Begin
  <2>2. ASSUME NEW p \in stream.pictures, BeginFails(p)
        PROVE  EncInv'
    <3>1. UNCHANGED encodeVars
      BY <2>2 DEF BeginFails
    <3>2. QED
      BY <1>1, <3>1, EncStays
  <2>3. ASSUME NEW s \in picture.slices, DecodeSlice(s)
        PROVE  EncInv'
    BY <1>1, <2>3, EncSlice DEF DecodeSlice
  <2>4. CASE SubmitSlice
    <3>1. CASE FlushFirst
      <4>1. /\ msgs' = << >> /\ attached' = FALSE
            /\ UNCHANGED <<pc, picture, count, used, cb, slice, written>>
        BY <3>1 DEF FlushFirst
      <4>2. QED
        BY <1>1, <4>1, BatchSent
    <3>2. CASE Submit
      BY <1>1, <3>2, EncSubmit
    <3>3. QED
      BY <2>4, <3>1, <3>2 DEF SubmitSlice
  <2>5. CASE End \/ GiveUp
    <3>1. /\ pc = "picture" /\ pc' = "idle"
          /\ msgs' \in {<< >>, msgs} /\ attached' \in {FALSE, attached}
          /\ UNCHANGED <<picture, count, used, cb, slice, written>>
      BY <2>5 DEF End, GiveUp, EndPicture, DropPicture
    <3>2. QED
      BY <1>1, <3>1, BatchSent
  <2>6. CASE Configure
    <3>1. /\ attached' = FALSE
          /\ UNCHANGED <<pc, picture, count, used, cb, slice, msgs, written>>
      BY <2>6 DEF Configure, NewContext
    <3>2. QED
      BY <1>1, <3>1, BatchSent
  <2>7. CASE UNCHANGED vars
    <3>1. UNCHANGED encodeVars
      BY <2>7 DEF vars
    <3>2. QED
      BY <1>1, <3>1, EncStays
  <2>8. QED
    BY <1>1, <2>1, <2>2, <2>3, <2>4, <2>5, <2>6, <2>7 DEF Next
<1>2. QED
  BY EncStarts, Inductive, <1>1, PTL DEF Spec
-----------------------------------------------------------------------------
(* What a picture leaves of its references is in range, also after it has  *)
(* failed.                                                                 *)
InRange ==
    /\ target \in Surface \cup {NoSurface}
    /\ Range(frames) \subseteq Surface
    /\ dpbIdx \in [Surface -> 0 .. 15]

(* The loop over at most 16 references leaves places below 16.             *)
LEMMA PlacedInRange ==
    ASSUME NEW F, NEW n \in 0 .. 16, NEW keep, Len(F) \in Nat,
           F \in [1 .. Len(F) -> keep], dpbIdx \in [Surface -> 0 .. 15]
    PROVE  Placed(F, n) \in [Surface -> 0 .. 15]
<1> DEFINE at(s) == {i \in DOMAIN F : i <= n /\ F[i] = s}
<1>1. ASSUME NEW s \in Surface
      PROVE  (IF at(s) = {} THEN dpbIdx[s] ELSE Lowest(at(s)) - 1) \in 0 .. 15
  <2>1. CASE at(s) = {}
    BY <2>1
  <2>2. CASE at(s) # {}
    <3>1. at(s) \in SUBSET Nat
      OBVIOUS
    <3>2. Lowest(at(s)) \in at(s)
      BY <2>2, <3>1, LowestIs
    <3>3. ASSUME NEW i \in at(s)
          PROVE  i \in 1 .. 16
      <4>1. i \in Nat /\ 1 <= i /\ i <= n /\ n <= 16
        OBVIOUS
      <4>2. QED
        BY <4>1
    <3>4. Lowest(at(s)) \in 1 .. 16
      BY <3>2, <3>3, Zenon
    <3>5. QED
      BY <2>2, <3>4
  <2>3. QED
    BY <2>1, <2>2
<1>2. QED
  BY <1>1 DEF Placed

(* A picture's references are in range, whether it begins or fails.        *)
LEMMA KeptInRange ==
    ASSUME Types, NEW keep \in SUBSET dpb, frames' \in SetToSeqs(keep)
    PROVE  /\ Range(frames') \subseteq Surface
           /\ Len(frames') \in Nat
           /\ frames' \in [1 .. Len(frames') -> keep]
<1>1. keep \in SUBSET Surface
  BY DEF Types
<1>2. Len(frames') \in Nat /\ frames' \in [1 .. Len(frames') -> keep]
  BY <1>1, FramesAre
<1>3. Range(frames') \subseteq keep
  BY <1>2 DEF Range
<1>4. QED
  BY <1>1, <1>2, <1>3

(* Places and frames stay in range.                                        *)
THEOREM Ranges == Spec => []InRange
<1>1. Init => InRange
  <2> SUFFICES ASSUME Init PROVE InRange
    OBVIOUS
  <2>1. target = NoSurface /\ frames = << >> /\ dpbIdx = [s \in Surface |-> 0]
    BY DEF Init, RefInit, Unused
  <2>2. DOMAIN frames = {}
    BY <2>1
  <2>3. QED
    BY <2>1, <2>2 DEF InRange, Range
<1>2. ASSUME IInv, InRange, [Next]_vars
      PROVE  InRange'
  <2>0. Types
    BY <1>2 DEF IInv
  <2>1. ASSUME NEW p \in stream.pictures, Begin(p)
        PROVE  InRange'
    <3>1. PICK keep \in SUBSET dpb :
             /\ frames' \in SetToSeqs(keep)
             /\ target' \in Surface \ keep
             /\ dpbIdx' = Placed(frames', p.refs)
      BY <2>1 DEF Begin, PictureParam
    <3>2. /\ Range(frames') \subseteq Surface
          /\ Len(frames') \in Nat
          /\ frames' \in [1 .. Len(frames') -> keep]
      BY <2>0, <3>1, KeptInRange
    <3>3. p.refs \in 0 .. 16
      BY <2>0, PictureIs
    <3>4. dpbIdx' \in [Surface -> 0 .. 15]
      BY <1>2, <3>1, <3>2, <3>3, PlacedInRange DEF InRange
    <3>5. QED
      BY <3>1, <3>2, <3>4 DEF InRange
  <2>2. ASSUME NEW p \in stream.pictures, BeginFails(p)
        PROVE  InRange'
    <3>1. PICK keep \in SUBSET dpb :
             /\ frames' \in SetToSeqs(keep)
             /\ target' \in Surface \ keep
             /\ dpbIdx' = dpbIdx
      BY <2>2 DEF BeginFails, PictureParamFails
    <3>2. Range(frames') \subseteq Surface
      BY <2>0, <3>1, KeptInRange
    <3>3. QED
      BY <1>2, <3>1, <3>2 DEF InRange
  <2>3. ASSUME NEW s \in picture.slices, DecodeSlice(s)
        PROVE  InRange'
    <3>1. UNCHANGED <<target, frames, dpbIdx>>
      BY <2>3 DEF DecodeSlice, SliceRefers, Refer
    <3>2. QED
      BY <1>2, <3>1 DEF InRange
  <2>4. CASE SubmitSlice \/ End \/ GiveUp \/ UNCHANGED vars
    <3>1. UNCHANGED <<target, frames, dpbIdx>>
      BY <2>4 DEF SubmitSlice, End, GiveUp, PictureEnds, vars, refVars
    <3>2. QED
      BY <1>2, <3>1 DEF InRange
  <2>5. CASE Configure
    <3>1. /\ target' = NoSurface /\ frames' = << >>
          /\ dpbIdx' = [s \in Surface |-> 0]
      BY <2>5 DEF Configure, NewSurfaces, Unused
    <3>2. DOMAIN frames' = {}
      BY <3>1
    <3>3. QED
      BY <3>1, <3>2 DEF InRange, Range
  <2>6. QED
    BY <1>2, <2>1, <2>2, <2>3, <2>4, <2>5 DEF Next
<1>3. QED
  BY <1>1, <1>2, Inductive, PTL DEF Spec

(* The pictures and configurations of a stream are counted up to its       *)
(* length.                                                                 *)
Counted == stream \in Streams /\ begun \in 0 .. stream.length

(* A stream is never counted beyond its length.                             *)
LEMMA StreamCounted == Spec => []Counted
<1>1. Init => Counted
  BY EncodeAssumption DEF Init, Counted
<1>2. ASSUME Counted, [Next]_vars
      PROVE  Counted'
  <2>1. stream.length \in Nat
    BY <1>2, EncodeAssumption DEF Counted
  <2>2. stream' = stream
    BY <1>2 DEF Next, Begin, BeginFails, DecodeSlice, SubmitSlice, End,
                GiveUp, Configure, vars
  <2>3. \/ begun' = begun
        \/ begun' = begun + 1 /\ begun < stream.length
        \/ begun' = begun + 1 /\ begun \in 1 .. stream.length - 1
    BY <1>2 DEF Next, Begin, BeginFails, DecodeSlice, SubmitSlice, End,
                GiveUp, Configure, vars
  <2>4. begun' \in 0 .. stream.length
    BY <1>2, <2>1, <2>3 DEF Counted
  <2>5. QED
    BY <1>2, <2>2, <2>4 DEF Counted
<1>3. QED
  BY <1>1, <1>2, PTL DEF Spec

(* What is in the buffer lies behind its cursors.                          *)
LEMMA EncodeTyped == EncInv => EncodeTypeOK
<1> SUFFICES ASSUME EncInv PROVE EncodeTypeOK
  OBVIOUS
<1>1. Buffer(cb) /\ Cursors /\ Batched
  BY DEF EncInv
<1>2. picture.most \in Nat
  <2>1. CASE picture \in Pictures
    BY <2>1, EncodeAssumption DEF Pictures
  <2>2. CASE picture = NoPicture
    BY <2>2 DEF NoPicture
  <2>3. QED
    BY <1>1, <2>1, <2>2 DEF Cursors
<1>3. /\ pc \in {"idle", "picture", "submit"}
      /\ picture \in Pictures \cup {NoPicture}
      /\ count \in 0 .. picture.most
      /\ used \in 0 .. BitstreamSize
  <2>1. BitstreamSize \in Nat
    BY SMT DEF BitstreamSize
  <2>2. QED
    BY <1>1, <1>2, <2>1 DEF Cursors
<1>4. cb.idx \in Nat /\ cb.start \in 0 .. cb.idx /\ cb.lldma \in Nat
  BY <1>1 DEF Buffer, Cursors
<1>5. ASSUME NEW a \in DOMAIN cb.mem
      PROVE  a \in 0 .. (IF cb.mem[a].op = "dma" THEN cb.lldma ELSE cb.idx)
  <2>1. At(cb, a, cb.mem[a])
    BY DEF At
  <2>2. Behind(cb, a, cb.mem[a])
    BY <1>1, <2>1 DEF Buffer
  <2>3. QED
    BY <1>4, <2>2 DEF Behind
<1>6. ASSUME NEW m \in Range(msgs)
      PROVE  m.size \in 0 .. LargestSize
  <2>1. m \in Messages
    BY <1>1 DEF Batched, Range
  <2>2. m.size \in Nat /\ m.size <= LargestSize
    BY <1>1, <2>1 DEF Batched, Messages
  <2>3. LargestSize \in Nat
    BY DEF LargestSize
  <2> DEFINE size == m.size
  <2> HIDE DEF size
  <2>4. size \in 0 .. LargestSize
    BY <2>2, <2>3 DEF size
  <2>5. QED
    BY <2>4 DEF size
<1>7. Len(msgs) <= Batch
  BY <1>1 DEF Batched
<1>8. QED
  BY <1>1, <1>3, <1>4, <1>5, <1>6, <1>7
  DEF EncodeTypeOK, Pictures, Batched, Cursors

(* Every variable stays what the code's types and arrays can hold: no more *)
(* messages than there are entries for (psb_shim.h's msgs[16][8], which    *)
(* has no check), no more than 12 bits of size in a message, places below  *)
(* 16 and colocated buffers below colocated_buffers_size.                  *)
THEOREM TypeCorrect == Spec => []TypeOK
<1>1. IInv /\ EncInv /\ InRange /\ Counted => TypeOK
  <2> SUFFICES ASSUME IInv, EncInv, InRange, Counted PROVE TypeOK
    OBVIOUS
  <2>1. RefTypeOK
    BY DEF IInv, Types, Holds, InRange, RefTypeOK
  <2>2. QED
    BY <2>1, EncodeTyped DEF TypeOK, Counted
<1>2. QED
  BY <1>1, Inductive, Encodes, Ranges, StreamCounted, PTL

(* The commands of the first eight slices since the buffer was started     *)
(* over stay where commands are, whichever pictures they are of, and the   *)
(* records of the first 38 in the buffer, if they are of one picture       *)
(* (psb_cmdbuf.c asks for neither), whatever the slices are: a slice is at *)
(* most 381 words, and takes five records and one more for every 65,535    *)
(* bytes of the bitstream buffer's 4 MiB.                                  *)
THEOREM RoomForSlices == Spec => []CommandsThenRecords
<1>1. ASSUME EncInv
      PROVE  CommandsThenRecords
  <2>1. /\ cb.idx \in Nat /\ cb.lldma \in Nat /\ count \in Nat
        /\ written \in Nat /\ used \in Nat /\ used <= BitstreamSize
    BY <1>1 DEF EncInv, Buffer, Cursors
  <2>2. ASSUME written \in 1 .. SafeSlices
        PROVE  ~Overrun
    <3>1. cb.idx <= SliceWords * written /\ written <= 8
      BY <1>1, <2>2 DEF EncInv, Cursors, SafeSlices
    <3>2. cb.idx <= 3048
      BY <2>1, <3>1 DEF SliceWords
    <3>3. QED
      BY <2>1, <3>2 DEF Overrun, CmdSize
  <2>3. ASSUME written \in 1 .. SafeLists, written = count
        PROVE  ~PastEnd
    <3>1. count <= 38
      BY <2>3 DEF SafeLists
    <3>2. \A more \in {0, 8} :
             MaxDmaLen * (cb.lldma - CmdWords + more)
                <= 8 * (MaxDmaLen * 5 * count + used)
             => cb.lldma <= 5120
      BY <2>1, <3>1 DEF MaxDmaLen, BitstreamSize, CmdWords, CmdSize
    <3>3. cb.lldma <= 5120
      BY <1>1, <2>3, <3>2 DEF EncInv, Cursors
    <3>4. QED
      BY <2>1, <3>3 DEF PastEnd, CmdSize, LldmaSize
  <2>4. QED
    BY <2>2, <2>3 DEF CommandsThenRecords
<1>2. QED
  BY <1>1, Encodes, PTL
-----------------------------------------------------------------------------
(* The firmware.  What sits in the buffer is found there.                  *)
LEMMA WordIs ==
    ASSUME NEW a, NEW w, Sits(cb, a, w)
    PROVE  Word(a) = w
BY DEF Sits, At, Word

(* Every command it can step over has a length.                            *)
LEMMA LengthIs ==
    ASSUME Buffer(cb), NEW a, NEW fresh \in BOOLEAN,
           Word(a).op \in Operations
    PROVE  Length(Word(a), fresh) \in Nat \ {0}
<1>1. a \in DOMAIN cb.mem
  BY DEF Word, Operations
<1>2. At(cb, a, Word(a))
  BY <1>1 DEF Word, At
<1> DEFINE w == Word(a)
<1>3. Measured(w)
  BY <1>2 DEF Buffer
<1> HIDE DEF w
<1>4. w.op \in Operations
  BY DEF w
<1>5. CASE w.op \in {"header", "lldma", "setup"}
  BY <1>5 DEF Length, w
<1>6. CASE w.op = "skip"
  BY <1>3, <1>6 DEF Length, Measured, w
<1>7. CASE w.op = "regs"
  BY <1>3, <1>7 DEF Length, Measured, w
<1>8. CASE w.op = "rendec"
  BY <1>3, <1>8 DEF Length, Measured, w
<1>9. QED
  BY <1>4, <1>5, <1>6, <1>7, <1>8 DEF Operations

(* Its walk goes from each command to the next, as they are found.         *)
LEMMA WalkIs ==
    ASSUME Buffer(cb), NEW lo \in Nat, NEW end \in Nat, lo <= end,
           NEW fresh \in BOOLEAN
    PROVE  \E g : /\ Walk(lo, end, fresh) = g[lo]
                  /\ \A a \in lo .. end :
                        g[a] = IF /\ Word(a).op \in Operations
                                  /\ a + Length(Word(a), fresh) <= end
                               THEN << a >> \o g[a + Length(Word(a), fresh)]
                               ELSE << a >>
<1> DEFINE C(a) == /\ Word(a).op \in Operations
                   /\ a + Length(Word(a), fresh) <= end
           next(a) == a + Length(Word(a), fresh)
           P(n) == \E g : g = [a \in end - n .. end |->
                                 IF C(a) THEN << a >> \o g[next(a)]
                                 ELSE << a >>]
           S == {n \in Nat : P(n)}
<1>1. \A a \in Int : C(a) => next(a) \in a + 1 .. end
  <2>1. ASSUME NEW a \in Int, C(a)
        PROVE  next(a) \in a + 1 .. end
    <3>1. Length(Word(a), fresh) \in Nat \ {0}
      BY <2>1, LengthIs
    <3>2. QED
      BY <2>1, <3>1
  <2>2. QED
    BY <2>1
<1> HIDE DEF C, next
<1>2. ASSUME NEW n \in Nat, NEW g,
             \A a \in end - n .. end :
                 g[a] = IF C(a) THEN << a >> \o g[next(a)] ELSE << a >>
      PROVE  P(n + 1)
  <2> DEFINE j == end - (n + 1)
             h == [a \in j .. end |->
                     IF a = j
                     THEN IF C(a) THEN << a >> \o g[next(a)] ELSE << a >>
                     ELSE g[a]]
  <2>1. ASSUME NEW a \in j .. end
        PROVE  h[a] = IF C(a) THEN << a >> \o h[next(a)] ELSE << a >>
    <3>1. C(a) => next(a) \in a + 1 .. end
      BY <1>1
    <3>2. C(a) => h[next(a)] = g[next(a)]
      BY <3>1
    <3>3. CASE a = j
      BY <3>2, <3>3
    <3>4. CASE a # j
      <4>1. a \in end - n .. end
        BY <3>4
      <4>2. h[a] = g[a]
        BY <3>4
      <4> HIDE DEF h
      <4>3. QED
        BY <1>2, <3>2, <4>1, <4>2
    <3>5. QED
      BY <3>3, <3>4
  <2>2. h = [a \in j .. end |-> IF C(a) THEN << a >> \o h[next(a)]
                                ELSE << a >>]
    BY <2>1
  <2> HIDE DEF h
  <2>3. QED
    BY <2>2
<1>3. \A n \in Nat : n \in S
  <2>1. 0 \in S
    <3>1. ASSUME NEW a \in end - 0 .. end
          PROVE  ~ C(a)
      <4>1. a = end /\ a \in Int
        OBVIOUS
      <4>2. QED
        BY <1>1, <4>1
    <3> DEFINE g == [a \in end - 0 .. end |-> << a >>]
    <3>2. g = [a \in end - 0 .. end |->
                  IF C(a) THEN << a >> \o g[next(a)] ELSE << a >>]
      BY <3>1
    <3> HIDE DEF g
    <3>3. P(0)
      BY <3>2
    <3>4. QED
      BY <3>3
  <2>2. ASSUME NEW n \in Nat, n \in S
        PROVE  n + 1 \in S
    <3>1. PICK g : g = [a \in end - n .. end |->
                          IF C(a) THEN << a >> \o g[next(a)] ELSE << a >>]
      BY <2>2
    <3>2. \A a \in end - n .. end :
             g[a] = IF C(a) THEN << a >> \o g[next(a)] ELSE << a >>
      BY <3>1
    <3> HIDE DEF P
    <3>3. P(n + 1)
      BY <1>2, <3>2
    <3>4. QED
      BY <3>3
  <2> HIDE DEF S
  <2>3. QED
    BY <2>1, <2>2, FromZero
<1> DEFINE F == CHOOSE g : g = [a \in lo .. end |->
                                  IF C(a) THEN << a >> \o g[next(a)]
                                  ELSE << a >>]
<1>4. F = [a \in lo .. end |-> IF C(a) THEN << a >> \o F[next(a)]
                               ELSE << a >>]
  <2>1. end - lo \in Nat /\ end - (end - lo) = lo
    OBVIOUS
  <2>2. P(end - lo)
    BY <1>3, <2>1
  <2>3. \E g : g = [a \in lo .. end |-> IF C(a) THEN << a >> \o g[next(a)]
                                        ELSE << a >>]
    BY <2>1, <2>2
  <2>4. QED
    BY <2>3
<1>5. Walk(lo, end, fresh) = F[lo]
  BY DEF Walk, C, next
<1> HIDE DEF F
<1>6. \A a \in lo .. end : F[a] = IF C(a) THEN << a >> \o F[next(a)]
                                  ELSE << a >>
  BY <1>4
<1>7. QED
  BY <1>5, <1>6 DEF C, next

(* Inside a rendec block it goes from chunk to chunk.                      *)
LEMMA ChunkStepsAre ==
    ASSUME Buffer(cb), NEW lo \in Nat, Word(lo).length \in Nat,
           NEW end, end = lo + Word(lo).length
    PROVE  \E g : /\ ChunksReach(lo)
                        <=> g[lo + 3] = end /\ Word(end).op = "separator"
                  /\ \A b \in lo .. end :
                        g[b] = IF /\ Word(b).op = "chunk"
                                  /\ b + 1 + (Word(b).less1 + 1) \div 2 <= end
                               THEN g[b + 1 + (Word(b).less1 + 1) \div 2]
                               ELSE b
<1> DEFINE next(b) == b + 1 + (Word(b).less1 + 1) \div 2
           C(b) == Word(b).op = "chunk" /\ next(b) <= end
           P(n) == \E g : g = [b \in end - n .. end |->
                                 IF C(b) THEN g[next(b)] ELSE b]
           S == {n \in Nat : P(n)}
<1>0. end \in Nat /\ lo <= end
  OBVIOUS
<1>1. \A b \in Int : C(b) => next(b) \in b + 1 .. end
  <2>1. ASSUME NEW b \in Int, C(b)
        PROVE  next(b) \in b + 1 .. end
    <3>1. b \in DOMAIN cb.mem
      BY <2>1 DEF Word
    <3>2. At(cb, b, Word(b))
      BY <3>1 DEF Word, At
    <3>3. Measured(Word(b))
      BY <3>2 DEF Buffer
    <3>4. (Word(b).less1 + 1) \div 2 \in Nat
      BY <2>1, <3>3 DEF Measured
    <3> DEFINE x == (Word(b).less1 + 1) \div 2
    <3>5. x \in Nat /\ b + 1 + x <= end
      BY <2>1, <3>4
    <3> HIDE DEF x
    <3>6. b + 1 + x \in b + 1 .. end
      BY <1>0, <3>5
    <3>7. QED
      BY <3>6 DEF x
  <2>2. QED
    BY <2>1
<1> HIDE DEF C, next
<1>2. ASSUME NEW n \in Nat, NEW g,
             \A b \in end - n .. end :
                 g[b] = IF C(b) THEN g[next(b)] ELSE b
      PROVE  P(n + 1)
  <2> DEFINE j == end - (n + 1)
             h == [b \in j .. end |->
                     IF b = j THEN IF C(b) THEN g[next(b)] ELSE b ELSE g[b]]
  <2>1. ASSUME NEW b \in j .. end
        PROVE  h[b] = IF C(b) THEN h[next(b)] ELSE b
    <3>1. C(b) => next(b) \in b + 1 .. end
      BY <1>0, <1>1
    <3>2. C(b) => h[next(b)] = g[next(b)]
      BY <1>0, <3>1
    <3>3. CASE b = j
      BY <3>2, <3>3
    <3>4. CASE b # j
      <4>1. b \in end - n .. end
        BY <1>0, <3>4
      <4>2. h[b] = g[b]
        BY <3>4
      <4> HIDE DEF h
      <4>3. QED
        BY <1>2, <3>2, <4>1, <4>2
    <3>5. QED
      BY <3>3, <3>4
  <2>2. h = [b \in j .. end |-> IF C(b) THEN h[next(b)] ELSE b]
    BY <2>1
  <2> HIDE DEF h
  <2>3. QED
    BY <2>2
<1>3. \A n \in Nat : n \in S
  <2>1. 0 \in S
    <3>1. ASSUME NEW b \in end - 0 .. end
          PROVE  ~ C(b)
      <4>1. b = end /\ b \in Int
        BY <1>0
      <4>2. QED
        BY <1>0, <1>1, <4>1
    <3> DEFINE g == [b \in end - 0 .. end |-> b]
    <3>2. g = [b \in end - 0 .. end |-> IF C(b) THEN g[next(b)] ELSE b]
      BY <3>1
    <3> HIDE DEF g
    <3>3. P(0)
      BY <3>2
    <3>4. QED
      BY <3>3
  <2>2. ASSUME NEW n \in Nat, n \in S
        PROVE  n + 1 \in S
    <3>1. PICK g : g = [b \in end - n .. end |->
                          IF C(b) THEN g[next(b)] ELSE b]
      BY <2>2
    <3>2. \A b \in end - n .. end : g[b] = IF C(b) THEN g[next(b)] ELSE b
      BY <3>1
    <3> HIDE DEF P
    <3>3. P(n + 1)
      BY <1>2, <3>2
    <3>4. QED
      BY <3>3
  <2> HIDE DEF S
  <2>3. QED
    BY <2>1, <2>2, FromZero
<1> DEFINE F == CHOOSE g : g = [b \in lo .. end |->
                                  IF C(b) THEN g[next(b)] ELSE b]
<1>4. F = [b \in lo .. end |-> IF C(b) THEN F[next(b)] ELSE b]
  <2>1. end - lo \in Nat /\ end - (end - lo) = lo
    BY <1>0
  <2>2. P(end - lo)
    BY <1>3, <2>1
  <2>3. \E g : g = [b \in lo .. end |-> IF C(b) THEN g[next(b)] ELSE b]
    BY <2>1, <2>2
  <2>4. QED
    BY <2>3
<1>5. ChunksReach(lo) <=> F[lo + 3] = end /\ Word(end).op = "separator"
  BY DEF ChunksReach, C, next
<1> HIDE DEF F
<1>6. \A b \in lo .. end : F[b] = IF C(b) THEN F[next(b)] ELSE b
  BY <1>4
<1>7. QED
  BY <1>5, <1>6 DEF C, next

(* A command and the commands behind it.                                   *)
LEMMA ConsIs ==
    ASSUME NEW a \in Nat, NEW p \in Seq(Nat)
    PROVE  /\ << a >> \o p \in Seq(Nat)
           /\ Len(<< a >> \o p) = Len(p) + 1
           /\ (<< a >> \o p)[1] = a
           /\ \A i \in 1 .. Len(p) : (<< a >> \o p)[i + 1] = p[i]
<1>1. << a >> \in Seq(Nat) /\ Len(<< a >>) = 1 /\ << a >>[1] = a
  OBVIOUS
<1>2. Len(p) \in Nat
  OBVIOUS
<1>3. QED
  BY <1>1, <1>2, ConcatProperties

(* A walk that leads from each place of w to the next finds them all.      *)
LEMMA TrailIs ==
    ASSUME NEW g, NEW n \in Nat \ {0}, NEW w \in Seq(Nat), Len(w) = n,
           g[w[n]] = << w[n] >>,
           \A i \in 1 .. n - 1 : g[w[i]] = << w[i] >> \o g[w[i + 1]]
    PROVE  g[w[1]] = w
<1> DEFINE Leg(k) ==  /\ g[w[n - k]] \in Seq(Nat)
                      /\ Len(g[w[n - k]]) = k + 1
                      /\ \A i \in 1 .. k + 1 :
                            g[w[n - k]][i] = w[n - k + i - 1]
           S == {k \in Nat : k < n => Leg(k)}
<1>1. \A i \in 1 .. n : w[i] \in Nat
  OBVIOUS
<1>2. \A k \in Nat : k \in S
  <2>1. 0 \in S
    <3> DEFINE p == g[w[n]]
    <3>1. n - 0 = n /\ n - 0 + 1 - 1 = n /\ w[n] \in Nat
      BY <1>1
    <3>2. p = << w[n] >>
      OBVIOUS
    <3> HIDE DEF p
    <3>3. p \in Seq(Nat) /\ Len(p) = 0 + 1 /\ p[1] = w[n]
      BY <3>1, <3>2
    <3>4. \A i \in 1 .. 0 + 1 : p[i] = w[n - 0 + i - 1]
      BY <3>1, <3>3
    <3>5. Leg(0)
      BY <3>1, <3>3, <3>4 DEF p
    <3>6. QED
      BY <3>5
  <2>2. ASSUME NEW k \in Nat, k \in S
        PROVE  k + 1 \in S
    <3> SUFFICES ASSUME k + 1 < n PROVE Leg(k + 1)
      OBVIOUS
    <3> DEFINE j == n - (k + 1)
               p == g[w[n - k]]
               q == g[w[j]]
    <3>1. j \in 1 .. n - 1 /\ j + 1 = n - k /\ w[j] \in Nat
      BY <1>1
    <3>2. Leg(k)
      BY <2>2
    <3>3. p \in Seq(Nat) /\ Len(p) = k + 1
          /\ \A i \in 1 .. k + 1 : p[i] = w[n - k + i - 1]
      BY <3>2
    <3>4. q = << w[j] >> \o p
      BY <3>1
    <3> HIDE DEF p, q
    <3>5. q \in Seq(Nat) /\ Len(q) = k + 2 /\ q[1] = w[j]
          /\ \A i \in 1 .. k + 1 : q[i + 1] = p[i]
      BY <3>1, <3>3, <3>4, ConsIs
    <3>6. ASSUME NEW i \in 1 .. k + 2
          PROVE  q[i] = w[n - (k + 1) + i - 1]
      <4>1. CASE i = 1
        <5>1. n - (k + 1) + i - 1 = j
          BY <3>1, <4>1
        <5>2. QED
          BY <3>5, <4>1, <5>1
      <4>2. CASE i # 1
        <5>1. i - 1 \in 1 .. k + 1 /\ (i - 1) + 1 = i
          BY <4>2
        <5>2. n - k + (i - 1) - 1 = n - (k + 1) + i - 1
          OBVIOUS
        <5>3. q[i] = p[i - 1]
          BY <3>5, <5>1
        <5>4. p[i - 1] = w[n - k + (i - 1) - 1]
          BY <3>3, <5>1
        <5>5. QED
          BY <5>2, <5>3, <5>4
      <4>3. QED
        BY <4>1, <4>2
    <3>7. QED
      BY <3>5, <3>6 DEF q
  <2> HIDE DEF S
  <2>3. QED
    BY <2>1, <2>2, FromZero
<1>3. Leg(n - 1)
  <2>1. n - 1 \in Nat /\ n - 1 < n
    OBVIOUS
  <2>2. n - 1 \in S
    BY <1>2, <2>1
  <2> HIDE DEF Leg
  <2>3. QED
    BY <2>1, <2>2
<1>4. n - (n - 1) = 1 /\ (n - 1) + 1 = n
  OBVIOUS
<1>5. g[w[1]] \in Seq(Nat) /\ Len(g[w[1]]) = n
      /\ \A i \in 1 .. n : g[w[1]][i] = w[1 + i - 1]
  BY <1>3, <1>4
<1>6. \A i \in 1 .. n : g[w[1]][i] = w[i]
  BY <1>5
<1>7. QED
  BY <1>5, <1>6, SeqEqual

(* What the firmware finds of a slice, and what of it makes it step.       *)
LEMMA FoundAre ==
    ASSUME NEW s \in SliceRecord, NEW r \in Nat, NEW n \in Nat,
           Laid(cb, s, r, n)
    PROVE  /\ Word(s.from) = [op |-> "header", save |-> r,
                              restore |-> r + 8]
           /\ Word(s.from + 4) = [op |-> "skip", length |-> 46]
           /\ Word(s.from + 5) = [op |-> "lldma", record |-> r + 16]
           /\ Word(s.from + 6) = [op |-> "regs", pairs |-> 22]
           /\ Word(s.from + 51) = [op |-> "setup", size |-> s.size]
           /\ Word(s.from + 54) = [op |-> "lldma", record |-> r + 24]
           /\ Word(s.from + 55) = [op |-> "regs", pairs |-> 7]
           /\ Word(s.from + 70) = [op |-> "rendec", length |-> n + 3]
           /\ Word(s.from + 73 + n) = [op |-> "separator"]
           /\ Word(s.from + 74 + n) = [op |-> "completion"]
BY WordIs DEF Laid

(* Where the firmware finds a slice's commands.                            *)
LEMMA PathsAre ==
    ASSUME Buffer(cb), NEW s \in SliceRecord, NEW r \in Nat, NEW n \in Nat,
           Laid(cb, s, r, n)
    PROVE  /\ Walk(s.from, s.to - 1, TRUE)
                = << s.from, s.from + 4, s.from + 5, s.from + 6,
                     s.from + 51, s.from + 54, s.from + 55, s.from + 70,
                     s.from + 74 + n >>
           /\ Walk(s.from, s.to - 1, FALSE)
                = << s.from, s.from + 4, s.from + 51, s.from + 54,
                     s.from + 55, s.from + 70, s.from + 74 + n >>
<1> DEFINE f == s.from
           e == f + 74 + n
<1>1. f \in Nat /\ e \in Nat /\ f <= e /\ s.to - 1 = e
  <2>1. s.to = s.from + 75 + n
    BY DEF Laid
  <2>2. f \in Nat
    BY DEF SliceRecord
  <2>3. QED
    BY <2>1, <2>2
<1>2. /\ Word(f) = [op |-> "header", save |-> r, restore |-> r + 8]
      /\ Word(f + 4) = [op |-> "skip", length |-> 46]
      /\ Word(f + 5) = [op |-> "lldma", record |-> r + 16]
      /\ Word(f + 6) = [op |-> "regs", pairs |-> 22]
      /\ Word(f + 51) = [op |-> "setup", size |-> s.size]
      /\ Word(f + 54) = [op |-> "lldma", record |-> r + 24]
      /\ Word(f + 55) = [op |-> "regs", pairs |-> 7]
      /\ Word(f + 70) = [op |-> "rendec", length |-> n + 3]
      /\ Word(e) = [op |-> "completion"]
  BY FoundAre
<1> HIDE DEF f
<1>3. ASSUME NEW fresh \in BOOLEAN
      PROVE  /\ Length(Word(f), fresh) = 4
             /\ Length(Word(f + 4), fresh) = IF fresh THEN 1 ELSE 47
             /\ Length(Word(f + 5), fresh) = 1
             /\ Length(Word(f + 6), fresh) = 45
             /\ Length(Word(f + 51), fresh) = 3
             /\ Length(Word(f + 54), fresh) = 1
             /\ Length(Word(f + 55), fresh) = 15
             /\ Length(Word(f + 70), fresh) = n + 4
  <2> HIDE DEF e
  <2>1. /\ Length(Word(f), fresh) = 4
        /\ Length(Word(f + 5), fresh) = 1
        /\ Length(Word(f + 51), fresh) = 3
        /\ Length(Word(f + 54), fresh) = 1
    BY <1>2 DEF Length
  <2>2. Length(Word(f + 4), fresh) = IF fresh THEN 1 ELSE 47
    BY <1>2 DEF Length
  <2>3. /\ Length(Word(f + 6), fresh) = 45
        /\ Length(Word(f + 55), fresh) = 15
    BY <1>2 DEF Length
  <2>4. Length(Word(f + 70), fresh) = n + 4
    BY <1>2 DEF Length
  <2>5. QED
    BY <2>1, <2>2, <2>3, <2>4
<1>4. /\ Word(f).op \in Operations /\ Word(f + 4).op \in Operations
      /\ Word(f + 5).op \in Operations /\ Word(f + 6).op \in Operations
      /\ Word(f + 51).op \in Operations /\ Word(f + 54).op \in Operations
      /\ Word(f + 55).op \in Operations /\ Word(f + 70).op \in Operations
      /\ Word(e).op \notin Operations
  BY <1>2 DEF Operations
<1>5. ASSUME NEW fresh \in BOOLEAN, NEW g,
             \A a \in f .. e :
                 g[a] = IF /\ Word(a).op \in Operations
                           /\ a + Length(Word(a), fresh) <= e
                        THEN << a >> \o g[a + Length(Word(a), fresh)]
                        ELSE << a >>
      PROVE  /\ g[f] = << f >> \o g[f + 4]
             /\ g[f + 4] = << f + 4 >> \o g[IF fresh THEN f + 5 ELSE f + 51]
             /\ g[f + 5] = << f + 5 >> \o g[f + 6]
             /\ g[f + 6] = << f + 6 >> \o g[f + 51]
             /\ g[f + 51] = << f + 51 >> \o g[f + 54]
             /\ g[f + 54] = << f + 54 >> \o g[f + 55]
             /\ g[f + 55] = << f + 55 >> \o g[f + 70]
             /\ g[f + 70] = << f + 70 >> \o g[e]
             /\ g[e] = << e >>
  <2>1. ASSUME NEW a \in Nat, NEW b \in Nat, f <= a, b <= e, a <= b,
               Word(a).op \in Operations, a + Length(Word(a), fresh) = b
        PROVE  g[a] = << a >> \o g[b]
    <3>1. a \in f .. e
      BY <1>1, <2>1
    <3> HIDE DEF e
    <3>2. QED
      BY <1>5, <2>1, <3>1
  <2>2. /\ f + 4 \in Nat /\ f + 5 \in Nat /\ f + 6 \in Nat /\ f + 51 \in Nat
        /\ f + 54 \in Nat /\ f + 55 \in Nat /\ f + 70 \in Nat
        /\ f + 70 <= e /\ f + 70 + (n + 4) = e
    BY <1>1
  <2> HIDE DEF e
  <2>3. g[f] = << f >> \o g[f + 4]
    <3>1. f + Length(Word(f), fresh) = f + 4
      BY <1>3
    <3>2. QED
      BY <1>1, <1>4, <2>1, <2>2, <3>1
  <2>4. g[f + 4] = << f + 4 >> \o g[IF fresh THEN f + 5 ELSE f + 51]
    <3>1. f + 4 + Length(Word(f + 4), fresh)
            = IF fresh THEN f + 5 ELSE f + 51
      BY <1>1, <1>3
    <3>2. f <= f + 4 /\ f + 4 <= f + 5 /\ f + 5 <= e /\ f + 4 <= f + 51
          /\ f + 51 <= e
      BY <1>1, <2>2
    <3>3. CASE fresh
      <4>1. f + 4 + Length(Word(f + 4), fresh) = f + 5
        BY <3>1, <3>3
      <4>2. g[f + 4] = << f + 4 >> \o g[f + 5]
        BY <1>1, <1>4, <2>1, <2>2, <3>2, <4>1
      <4>3. QED
        BY <3>3, <4>2
    <3>4. CASE ~fresh
      <4>1. f + 4 + Length(Word(f + 4), fresh) = f + 51
        BY <3>1, <3>4
      <4>2. g[f + 4] = << f + 4 >> \o g[f + 51]
        BY <1>1, <1>4, <2>1, <2>2, <3>2, <4>1
      <4>3. QED
        BY <3>4, <4>2
    <3>5. QED
      BY <3>3, <3>4
  <2>5. g[f + 5] = << f + 5 >> \o g[f + 6]
    <3>1. f + 5 + Length(Word(f + 5), fresh) = f + 6
      BY <1>1, <1>3, <2>2
    <3>2. QED
      BY <1>1, <1>4, <2>1, <2>2, <3>1
  <2>6. g[f + 6] = << f + 6 >> \o g[f + 51]
    <3>1. f + 6 + Length(Word(f + 6), fresh) = f + 51
      BY <1>1, <1>3, <2>2
    <3>2. QED
      BY <1>1, <1>4, <2>1, <2>2, <3>1
  <2>7. g[f + 51] = << f + 51 >> \o g[f + 54]
    <3>1. f + 51 + Length(Word(f + 51), fresh) = f + 54
      BY <1>1, <1>3, <2>2
    <3>2. QED
      BY <1>1, <1>4, <2>1, <2>2, <3>1
  <2>8. g[f + 54] = << f + 54 >> \o g[f + 55]
    <3>1. f + 54 + Length(Word(f + 54), fresh) = f + 55
      BY <1>1, <1>3, <2>2
    <3>2. QED
      BY <1>1, <1>4, <2>1, <2>2, <3>1
  <2>9. g[f + 55] = << f + 55 >> \o g[f + 70]
    <3>1. f + 55 + Length(Word(f + 55), fresh) = f + 70
      BY <1>1, <1>3, <2>2
    <3>2. QED
      BY <1>1, <1>4, <2>1, <2>2, <3>1
  <2>10. g[f + 70] = << f + 70 >> \o g[e]
    <3>1. f + 70 + Length(Word(f + 70), fresh) = e
      BY <1>1, <1>3, <2>2
    <3>2. QED
      BY <1>1, <1>4, <2>1, <2>2, <3>1
  <2>11. g[e] = << e >>
    <3>1. e \in f .. e
      BY <1>1
    <3>2. QED
      BY <1>4, <1>5, <3>1
  <2>12. QED
    BY <2>3, <2>4, <2>5, <2>6, <2>7, <2>8, <2>9, <2>10, <2>11
<1> HIDE DEF e
<1>6. /\ f + 4 \in Nat /\ f + 5 \in Nat /\ f + 6 \in Nat /\ f + 51 \in Nat
      /\ f + 54 \in Nat /\ f + 55 \in Nat /\ f + 70 \in Nat
  BY <1>1
<1>7. Walk(f, e, TRUE)
        = << f, f + 4, f + 5, f + 6, f + 51, f + 54, f + 55, f + 70, e >>
  <2>1. PICK g : /\ Walk(f, e, TRUE) = g[f]
                 /\ \A a \in f .. e :
                       g[a] = IF /\ Word(a).op \in Operations
                                 /\ a + Length(Word(a), TRUE) <= e
                              THEN << a >> \o g[a + Length(Word(a), TRUE)]
                              ELSE << a >>
    BY <1>1, WalkIs
  <2>2. /\ g[f] = << f >> \o g[f + 4]
        /\ g[f + 4] = << f + 4 >> \o g[f + 5]
        /\ g[f + 5] = << f + 5 >> \o g[f + 6]
        /\ g[f + 6] = << f + 6 >> \o g[f + 51]
        /\ g[f + 51] = << f + 51 >> \o g[f + 54]
        /\ g[f + 54] = << f + 54 >> \o g[f + 55]
        /\ g[f + 55] = << f + 55 >> \o g[f + 70]
        /\ g[f + 70] = << f + 70 >> \o g[e]
        /\ g[e] = << e >>
    <3>1. g[f + 4] = << f + 4 >> \o g[IF TRUE THEN f + 5 ELSE f + 51]
      BY <1>5, <2>1, ZenonT(30)
    <3>2. g[f + 4] = << f + 4 >> \o g[f + 5]
      BY <3>1
    <3>3. /\ g[f] = << f >> \o g[f + 4]
          /\ g[f + 5] = << f + 5 >> \o g[f + 6]
          /\ g[f + 6] = << f + 6 >> \o g[f + 51]
      BY <1>5, <2>1, ZenonT(30)
    <3>4. /\ g[f + 51] = << f + 51 >> \o g[f + 54]
          /\ g[f + 54] = << f + 54 >> \o g[f + 55]
          /\ g[f + 55] = << f + 55 >> \o g[f + 70]
          /\ g[f + 70] = << f + 70 >> \o g[e]
          /\ g[e] = << e >>
      BY <1>5, <2>1, ZenonT(30)
    <3>5. QED
      BY <3>2, <3>3, <3>4
  <2> DEFINE w == << f, f + 4, f + 5, f + 6, f + 51, f + 54, f + 55, f + 70,
                     e >>
  <2>3. w \in Seq(Nat) /\ Len(w) = 9
    BY <1>1, <1>6
  <2>4. /\ w[1] = f /\ w[2] = f + 4 /\ w[3] = f + 5
        /\ w[4] = f + 6 /\ w[5] = f + 51 /\ w[6] = f + 54
        /\ w[7] = f + 55 /\ w[8] = f + 70 /\ w[9] = e
    OBVIOUS
  <2>5. g[w[9]] = << w[9] >>
    BY <2>2, <2>4
  <2>6. \A i \in 1 .. 9 - 1 : g[w[i]] = << w[i] >> \o g[w[i + 1]]
    <3> HIDE DEF w
    <3>1. g[w[1]] = << w[1] >> \o g[w[2]]
      BY <2>2, <2>4
    <3>2. g[w[2]] = << w[2] >> \o g[w[3]]
      BY <2>2, <2>4
    <3>3. g[w[3]] = << w[3] >> \o g[w[4]]
      BY <2>2, <2>4
    <3>4. g[w[4]] = << w[4] >> \o g[w[5]]
      BY <2>2, <2>4
    <3>5. g[w[5]] = << w[5] >> \o g[w[6]]
      BY <2>2, <2>4
    <3>6. g[w[6]] = << w[6] >> \o g[w[7]]
      BY <2>2, <2>4
    <3>7. g[w[7]] = << w[7] >> \o g[w[8]]
      BY <2>2, <2>4
    <3>8. g[w[8]] = << w[8] >> \o g[w[9]]
      BY <2>2, <2>4
    <3> SUFFICES ASSUME NEW i \in 1 .. 9 - 1
                 PROVE  g[w[i]] = << w[i] >> \o g[w[i + 1]]
      OBVIOUS
    <3>9. \/ i = 1 /\ i + 1 = 2
          \/ i = 2 /\ i + 1 = 3
          \/ i = 3 /\ i + 1 = 4
          \/ i = 4 /\ i + 1 = 5
          \/ i = 5 /\ i + 1 = 6
          \/ i = 6 /\ i + 1 = 7
          \/ i = 7 /\ i + 1 = 8
          \/ i = 8 /\ i + 1 = 9
      OBVIOUS
    <3>10. CASE i = 1 /\ i + 1 = 2
      BY <3>1, <3>10
    <3>11. CASE i = 2 /\ i + 1 = 3
      BY <3>2, <3>11
    <3>12. CASE i = 3 /\ i + 1 = 4
      BY <3>3, <3>12
    <3>13. CASE i = 4 /\ i + 1 = 5
      BY <3>4, <3>13
    <3>14. CASE i = 5 /\ i + 1 = 6
      BY <3>5, <3>14
    <3>15. CASE i = 6 /\ i + 1 = 7
      BY <3>6, <3>15
    <3>16. CASE i = 7 /\ i + 1 = 8
      BY <3>7, <3>16
    <3>17. CASE i = 8 /\ i + 1 = 9
      BY <3>8, <3>17
    <3>18. QED
      BY <3>9, <3>10, <3>11, <3>12, <3>13, <3>14, <3>15, <3>16, <3>17
  <2>7. g[w[1]] = w
    <3> HIDE DEF w
    <3>1. 9 \in Nat \ {0}
      OBVIOUS
    <3>2. QED
      BY <2>3, <2>5, <2>6, <3>1, TrailIs
  <2>8. QED
    BY <2>1, <2>4, <2>7
<1>8. Walk(f, e, FALSE)
        = << f, f + 4, f + 51, f + 54, f + 55, f + 70, e >>
  <2>1. PICK g : /\ Walk(f, e, FALSE) = g[f]
                 /\ \A a \in f .. e :
                       g[a] = IF /\ Word(a).op \in Operations
                                 /\ a + Length(Word(a), FALSE) <= e
                              THEN << a >> \o g[a + Length(Word(a), FALSE)]
                              ELSE << a >>
    BY <1>1, WalkIs
  <2>2. /\ g[f] = << f >> \o g[f + 4]
        /\ g[f + 4] = << f + 4 >> \o g[f + 51]
        /\ g[f + 51] = << f + 51 >> \o g[f + 54]
        /\ g[f + 54] = << f + 54 >> \o g[f + 55]
        /\ g[f + 55] = << f + 55 >> \o g[f + 70]
        /\ g[f + 70] = << f + 70 >> \o g[e]
        /\ g[e] = << e >>
    <3>1. g[f + 4] = << f + 4 >> \o g[IF FALSE THEN f + 5 ELSE f + 51]
      BY <1>5, <2>1, ZenonT(30)
    <3>2. g[f + 4] = << f + 4 >> \o g[f + 51]
      BY <3>1
    <3>3. /\ g[f] = << f >> \o g[f + 4]
          /\ g[f + 51] = << f + 51 >> \o g[f + 54]
          /\ g[f + 54] = << f + 54 >> \o g[f + 55]
          /\ g[f + 55] = << f + 55 >> \o g[f + 70]
          /\ g[f + 70] = << f + 70 >> \o g[e]
          /\ g[e] = << e >>
      BY <1>5, <2>1, ZenonT(30)
    <3>4. QED
      BY <3>2, <3>3
  <2> DEFINE w == << f, f + 4, f + 51, f + 54, f + 55, f + 70, e >>
  <2>3. w \in Seq(Nat) /\ Len(w) = 7
    BY <1>1, <1>6
  <2>4. /\ w[1] = f /\ w[2] = f + 4 /\ w[3] = f + 51
        /\ w[4] = f + 54 /\ w[5] = f + 55 /\ w[6] = f + 70
        /\ w[7] = e
    OBVIOUS
  <2>5. g[w[7]] = << w[7] >>
    BY <2>2, <2>4
  <2>6. \A i \in 1 .. 7 - 1 : g[w[i]] = << w[i] >> \o g[w[i + 1]]
    <3> HIDE DEF w
    <3>1. g[w[1]] = << w[1] >> \o g[w[2]]
      BY <2>2, <2>4
    <3>2. g[w[2]] = << w[2] >> \o g[w[3]]
      BY <2>2, <2>4
    <3>3. g[w[3]] = << w[3] >> \o g[w[4]]
      BY <2>2, <2>4
    <3>4. g[w[4]] = << w[4] >> \o g[w[5]]
      BY <2>2, <2>4
    <3>5. g[w[5]] = << w[5] >> \o g[w[6]]
      BY <2>2, <2>4
    <3>6. g[w[6]] = << w[6] >> \o g[w[7]]
      BY <2>2, <2>4
    <3> SUFFICES ASSUME NEW i \in 1 .. 7 - 1
                 PROVE  g[w[i]] = << w[i] >> \o g[w[i + 1]]
      OBVIOUS
    <3>7. \/ i = 1 /\ i + 1 = 2
          \/ i = 2 /\ i + 1 = 3
          \/ i = 3 /\ i + 1 = 4
          \/ i = 4 /\ i + 1 = 5
          \/ i = 5 /\ i + 1 = 6
          \/ i = 6 /\ i + 1 = 7
      OBVIOUS
    <3>8. CASE i = 1 /\ i + 1 = 2
      BY <3>1, <3>8
    <3>9. CASE i = 2 /\ i + 1 = 3
      BY <3>2, <3>9
    <3>10. CASE i = 3 /\ i + 1 = 4
      BY <3>3, <3>10
    <3>11. CASE i = 4 /\ i + 1 = 5
      BY <3>4, <3>11
    <3>12. CASE i = 5 /\ i + 1 = 6
      BY <3>5, <3>12
    <3>13. CASE i = 6 /\ i + 1 = 7
      BY <3>6, <3>13
    <3>14. QED
      BY <3>7, <3>8, <3>9, <3>10, <3>11, <3>12, <3>13
  <2>7. g[w[1]] = w
    <3> HIDE DEF w
    <3>1. 7 \in Nat \ {0}
      OBVIOUS
    <3>2. QED
      BY <2>3, <2>5, <2>6, <3>1, TrailIs
  <2>8. QED
    BY <2>1, <2>4, <2>7
<1>9. QED
  BY <1>1, <1>7, <1>8 DEF e, f

(* The chunks of a slice's rendec block reach to its separator.            *)
LEMMA ChunksFollowed ==
    ASSUME Buffer(cb), NEW s \in SliceRecord, NEW r \in Nat, NEW n \in Nat,
           Laid(cb, s, r, n)
    PROVE  ChunksReach(s.from + 70)
<1> DEFINE lo == s.from + 70
           base == s.from + 73
           end == s.from + 73 + n
           next(b) == b + 1 + (Word(b).less1 + 1) \div 2
<1>1. /\ lo \in Nat /\ base \in Nat /\ end \in Nat /\ lo <= base
      /\ base + n = end /\ lo + 3 = base /\ end = lo + (n + 3)
  BY DEF SliceRecord
<1>2. /\ Word(lo) = [op |-> "rendec", length |-> n + 3]
      /\ Word(end) = [op |-> "separator"]
  BY FoundAre, ZenonT(30)
<1>3. ChunksAt(cb, base, n)
  BY DEF Laid
<1> HIDE DEF lo, base, end
<1>4. Word(lo).length \in Nat /\ end = lo + Word(lo).length
  BY <1>1, <1>2
<1>5. PICK g : /\ ChunksReach(lo)
                        <=> g[lo + 3] = end /\ Word(end).op = "separator"
               /\ \A b \in lo .. end :
                     g[b] = IF Word(b).op = "chunk" /\ next(b) <= end
                            THEN g[next(b)] ELSE b
  BY <1>1, <1>4, ChunkStepsAre
<1>6. PICK k \in Nat : \E pos \in [0 .. k -> Nat] :
         /\ pos[0] = 0
         /\ pos[k] = n
         /\ \A i \in 1 .. k :
               /\ pos[i] > pos[i - 1]
               /\ Sits(cb, base + pos[i - 1],
                       [op |-> "chunk",
                        less1 |-> SymbolsLess1(pos[i] - pos[i - 1] - 1)])
  BY <1>3 DEF ChunksAt
<1>7. PICK pos \in [0 .. k -> Nat] :
         /\ pos[0] = 0
         /\ pos[k] = n
         /\ \A i \in 1 .. k :
               /\ pos[i] > pos[i - 1]
               /\ Sits(cb, base + pos[i - 1],
                       [op |-> "chunk",
                        less1 |-> SymbolsLess1(pos[i] - pos[i - 1] - 1)])
  BY <1>6
<1> DEFINE S == {j \in Nat : j <= k => /\ pos[k - j] <= n
                                       /\ g[base + pos[k - j]] = end}
<1>8. \A j \in Nat : j \in S
  <2>1. 0 \in S
    <3>1. k - 0 = k /\ base + pos[k] = end /\ end \in lo .. end
      BY <1>1, <1>7
    <3>2. g[end] = end
      BY <1>2, <1>5, <3>1
    <3>3. n <= n
      BY <1>1
    <3>4. pos[k] <= n /\ g[base + pos[k]] = end
      BY <1>7, <3>1, <3>2, <3>3, Zenon
    <3>5. QED
      BY <3>1, <3>4
  <2>2. ASSUME NEW j \in Nat, j \in S
        PROVE  j + 1 \in S
    <3> SUFFICES ASSUME j + 1 <= k
                 PROVE  /\ pos[k - (j + 1)] <= n
                        /\ g[base + pos[k - (j + 1)]] = end
      OBVIOUS
    <3> DEFINE i == k - j
               x == pos[i - 1]
               y == pos[i]
               b == base + x
    <3>1. i \in 1 .. k /\ i - 1 \in 0 .. k /\ i \in 0 .. k
          /\ k - (j + 1) = i - 1
      BY <1>6
    <3>2. y <= n /\ g[base + y] = end
      BY <2>2, <3>1
    <3>3. x \in Nat /\ y \in Nat
      BY <1>7, <3>1
    <3>4. y > x /\ Sits(cb, b, [op |-> "chunk",
                                less1 |-> SymbolsLess1(y - x - 1)])
      BY <1>7, <3>1
    <3> HIDE DEF x, y
    <3>5. Word(b) = [op |-> "chunk", less1 |-> SymbolsLess1(y - x - 1)]
      BY <3>4, WordIs
    <3>6. (SymbolsLess1(y - x - 1) + 1) \div 2 = y - x - 1
      BY <3>3, <3>4 DEF SymbolsLess1
    <3>7. Word(b).op = "chunk" /\ next(b) = base + y
      <4>1. next(b) = b + 1 + (y - x - 1)
        BY <3>5, <3>6
      <4>2. QED
        BY <1>1, <3>3, <3>5, <4>1
    <3>8. b \in lo .. end /\ base + y <= end
      BY <1>1, <3>2, <3>3, <3>4
    <3>9. g[b] = g[base + y]
      BY <1>5, <3>7, <3>8
    <3>10. x <= n
      BY <3>2, <3>3, <3>4
    <3>11. QED
      BY <3>1, <3>2, <3>9, <3>10 DEF x
  <2> HIDE DEF S
  <2>3. QED
    BY <2>1, <2>2, FromZero
<1>9. g[lo + 3] = end
  <2>1. k \in S
    BY <1>8
  <2>2. k - k = 0 /\ base + 0 = lo + 3
    BY <1>1, <1>6
  <2>3. QED
    BY <1>6, <1>7, <2>1, <2>2
<1>10. ChunksReach(lo)
  BY <1>2, <1>5, <1>9
<1>11. QED
  BY <1>10 DEF lo

(* As long as the commands have not run into the records, they fit.        *)
LEMMA NotOverrun ==
    ASSUME Buffer(cb), ~Overrun
    PROVE  Fits(cb)
BY DEF Buffer, Overrun, Fits, CmdSize, CmdWords

(* The record a message names copies the slice.                            *)
LEMMA CopiedIs ==
    ASSUME NEW m \in Messages, Sent(cb, m)
    PROVE  Copied(m)
<1> DEFINE from == m.slice.from
           to == m.slice.to
           w == [op |-> "dma", what |-> "copy", at |-> from,
                 units |-> to - from, next |-> None]
<1>1. from \in Nat /\ to \in Nat /\ m.size = 4 * (to - from)
  BY DEF Messages, SliceRecord, Sent
<1>2. Word(m.record) = w
  BY WordIs DEF Sent
<1>3. /\ w.op = "dma" /\ w.what = "copy" /\ w.next = None
      /\ w.at = from /\ w.units = to - from
  OBVIOUS
<1>4. from + (to - from) = to
  BY <1>1
<1> HIDE DEF w
<1>5. QED
  BY <1>1, <1>2, <1>3, <1>4 DEF Copied

(* A slice whose message is in the batch is found where it was laid.       *)
LEMMA SentIs ==
    ASSUME Buffer(cb), NEW m \in Messages, Sent(cb, m)
    PROVE  \E r \in Nat : \E n \in Nat :
              /\ Laid(cb, m.slice, r, n)
              /\ Path(m, TRUE)
                   = << m.slice.from, m.slice.from + 4, m.slice.from + 5,
                        m.slice.from + 6, m.slice.from + 51,
                        m.slice.from + 54, m.slice.from + 55,
                        m.slice.from + 70, m.slice.from + 74 + n >>
              /\ Path(m, FALSE)
                   = << m.slice.from, m.slice.from + 4, m.slice.from + 51,
                        m.slice.from + 54, m.slice.from + 55,
                        m.slice.from + 70, m.slice.from + 74 + n >>
<1> DEFINE s == m.slice
<1>1. s \in SliceRecord
  BY DEF Messages
<1>2. PICK r \in Nat : \E n \in 0 .. SliceWords - 75 : Laid(cb, s, r, n)
  BY DEF Sent
<1>3. PICK n \in 0 .. SliceWords - 75 : Laid(cb, s, r, n)
  BY <1>2
<1>4. n \in Nat
  BY DEF SliceWords
<1>5. /\ Path(m, TRUE) = Walk(s.from, s.to - 1, TRUE)
      /\ Path(m, FALSE) = Walk(s.from, s.to - 1, FALSE)
  BY DEF Path
<1> HIDE DEF s
<1>6. /\ Walk(s.from, s.to - 1, TRUE)
            = << s.from, s.from + 4, s.from + 5, s.from + 6,
                 s.from + 51, s.from + 54, s.from + 55, s.from + 70,
                 s.from + 74 + n >>
      /\ Walk(s.from, s.to - 1, FALSE)
            = << s.from, s.from + 4, s.from + 51, s.from + 54,
                 s.from + 55, s.from + 70, s.from + 74 + n >>
  BY <1>1, <1>3, <1>4, PathsAre, ZenonT(30)
<1>7. QED
  BY <1>3, <1>4, <1>5, <1>6 DEF s

(* The firmware's way from header to header through what it was given      *)
(* finds the commands of each slice, whether it loads the VLC tables       *)
(* (psb_cmdbuf_skip_start_block) or skips them, ends at CMD_COMPLETION,    *)
(* and finds the chunks of the rendec block up to its separator; whatever  *)
(* the slices are, and whatever was written behind them.                   *)
THEOREM FirmwareFinds == Spec => []FirmwareFollows
<1>1. ASSUME EncInv
      PROVE  FirmwareFollows
  <2> SUFFICES ASSUME ~Overrun, NEW m \in Range(msgs)
               PROVE  /\ Copied(m)
                      /\ Ops(Path(m, TRUE)) = Fresh
                      /\ Ops(Path(m, FALSE)) = Same
                      /\ Last(Path(m, TRUE)) = m.slice.to - 1
                      /\ ChunksReach(Path(m, TRUE)[8])
    BY DEF FirmwareFollows
  <2>1. Buffer(cb) /\ Fits(cb)
    BY <1>1, NotOverrun DEF EncInv
  <2>2. m \in Messages /\ Sent(cb, m)
    BY <1>1, <2>1 DEF EncInv, Batched, Range
  <2> DEFINE s == m.slice
             f == s.from
             p == Path(m, TRUE)
             q == Path(m, FALSE)
  <2>3. s \in SliceRecord /\ f \in Nat
    BY <2>2 DEF Messages, SliceRecord
  <2>4. PICK r \in Nat : \E n \in Nat :
           /\ Laid(cb, s, r, n)
           /\ p = << f, f + 4, f + 5, f + 6, f + 51, f + 54, f + 55, f + 70,
                     f + 74 + n >>
           /\ q = << f, f + 4, f + 51, f + 54, f + 55, f + 70, f + 74 + n >>
    BY <2>1, <2>2, SentIs, ZenonT(30)
  <2>5. PICK n \in Nat :
           /\ Laid(cb, s, r, n)
           /\ p = << f, f + 4, f + 5, f + 6, f + 51, f + 54, f + 55, f + 70,
                     f + 74 + n >>
           /\ q = << f, f + 4, f + 51, f + 54, f + 55, f + 70, f + 74 + n >>
    BY <2>4
  <2> HIDE DEF p, q
  <2>8. /\ Word(f).op = "header" /\ Word(f + 4).op = "skip"
        /\ Word(f + 5).op = "lldma" /\ Word(f + 6).op = "regs"
        /\ Word(f + 51).op = "setup" /\ Word(f + 54).op = "lldma"
        /\ Word(f + 55).op = "regs" /\ Word(f + 70).op = "rendec"
        /\ Word(f + 74 + n).op = "completion"
    <3>0. Laid(cb, s, r, n)
      BY <2>5
    <3> HIDE DEF s
    <3>1. /\ Word(f) = [op |-> "header", save |-> r, restore |-> r + 8]
          /\ Word(f + 4) = [op |-> "skip", length |-> 46]
          /\ Word(f + 5) = [op |-> "lldma", record |-> r + 16]
      BY <2>3, <3>0, FoundAre, ZenonT(30)
    <3>2. /\ Word(f + 6) = [op |-> "regs", pairs |-> 22]
          /\ Word(f + 51) = [op |-> "setup", size |-> s.size]
          /\ Word(f + 54) = [op |-> "lldma", record |-> r + 24]
      BY <2>3, <3>0, FoundAre, ZenonT(30)
    <3>3. /\ Word(f + 55) = [op |-> "regs", pairs |-> 7]
          /\ Word(f + 70) = [op |-> "rendec", length |-> n + 3]
          /\ Word(f + 74 + n) = [op |-> "completion"]
      BY <2>3, <3>0, FoundAre, ZenonT(30)
    <3> HIDE DEF f
    <3>4. QED
      BY <3>1, <3>2, <3>3
  <2>9. Copied(m)
    BY <2>2, CopiedIs
  <2>10. Ops(p) = Fresh
    BY <2>5, <2>8 DEF Ops, Fresh
  <2>11. Ops(q) = Same
    BY <2>5, <2>8 DEF Ops, Same
  <2>12. Last(p) = s.to - 1
    <3>1. Last(p) = f + 74 + n
      BY <2>5 DEF Last
    <3>2. s.to = f + 75 + n
      BY <2>5 DEF Laid
    <3>3. QED
      BY <2>3, <2>5, <3>1, <3>2
  <2>13. ChunksReach(p[8])
    <3>1. p[8] = f + 70
      BY <2>5
    <3>2. QED
      BY <2>1, <2>3, <2>5, <3>1, ChunksFollowed
  <2>14. QED
    BY <2>9, <2>10, <2>11, <2>12, <2>13 DEF p, q
<1>2. QED
  BY <1>1, Encodes, PTL

(* A list in one record covers its bytes.                                  *)
LEMMA ShortCovers ==
    ASSUME NEW r \in Nat, NEW what, NEW units \in Nat \ {0},
           NEW width \in {2, 4}, FullRecords(units) = 0,
           units <= MaxDmaLen,
           ListAt(cb, r, what, 0, units, width)
    PROVE  Covers(r, what, 0, width * units, width)
<1> DEFINE size == width * units
           rec(j) == Word(r + j * RecordWords)
           w == [op |-> "dma", what |-> what, at |-> 0, units |-> units,
                 next |-> None]
<1>1. width \in Nat /\ size \in Nat /\ MaxDmaLen \in Nat \ {0}
  BY DEF MaxDmaLen
<1>2. Sits(cb, r + 0 * RecordWords, Part(r, what, 0, units, width, 0))
  BY DEF ListAt
<1>3. Part(r, what, 0, units, width, 0) = w
  <2>1. 0 + 0 * MaxDmaLen * width = 0
    BY <1>1
  <2>2. units - 0 * MaxDmaLen = units
    BY <1>1
  <2>3. QED
    BY <2>1, <2>2 DEF Part
<1>4. rec(0) = w
  BY <1>2, <1>3, WordIs
<1>5. /\ w.op = "dma" /\ w.what = what /\ w.at = 0 /\ w.units = units
      /\ w.next = None
  OBVIOUS
<1> HIDE DEF w, rec
<1>6. units * width = size /\ 0 + size = size
  BY <1>1
<1>7. 0 \in 0 .. size \div MaxDmaLen
  <2>1. size \div MaxDmaLen \in Nat
    BY <1>1 DEF MaxDmaLen
  <2>2. QED
    BY <2>1
<1> HIDE DEF size
<1>8. units \in 1 .. MaxDmaLen
  BY <1>1
<1>9. /\ \A j \in 0 .. 0 : rec(j).op = "dma" /\ rec(j).what = what
      /\ rec(0).at = 0
      /\ \A j \in 1 .. 0 :
            /\ rec(j - 1).next = r + j * RecordWords
            /\ rec(j).at = rec(j - 1).at + rec(j - 1).units * width
      /\ \A j \in 0 .. 0 : rec(j).units \in 1 .. MaxDmaLen
      /\ rec(0).next = None
      /\ rec(0).at + rec(0).units * width = 0 + size
  <2>1. \A j \in 0 .. 0 : j = 0
    OBVIOUS
  <2>2. \A j \in 1 .. 0 : FALSE
    OBVIOUS
  <2>3. rec(0).at + rec(0).units * width = 0 + size
    BY <1>1, <1>4, <1>5, <1>6
  <2>4. QED
    BY <1>4, <1>5, <1>8, <2>1, <2>2, <2>3
<1>10. Covers(r, what, 0, size, width)
  BY <1>7, <1>9 DEF Covers, rec
<1>11. QED
  BY <1>10 DEF size

(* A list of a slice's data covers it, in however many records.            *)
LEMMA DataCovers ==
    ASSUME NEW r \in Nat, NEW what, NEW at \in Nat,
           NEW units \in Nat \ {0}, ListAt(cb, r, what, at, units, 1)
    PROVE  Covers(r, what, at, units, 1)
<1> DEFINE k == FullRecords(units)
           rec(j) == Word(r + j * RecordWords)
<1>1. /\ k \in Nat /\ MaxDmaLen * k < units
      /\ units <= MaxDmaLen * k + MaxDmaLen
  BY FullIs
<1>2. MaxDmaLen \in Nat \ {0}
  BY DEF MaxDmaLen
<1>3. k \in 0 .. units \div MaxDmaLen
  <2> HIDE DEF k
  <2>1. k <= units \div MaxDmaLen /\ units \div MaxDmaLen \in Nat
    BY <1>1 DEF MaxDmaLen
  <2>2. QED
    BY <1>1, <2>1
<1>4. ASSUME NEW j \in 0 .. k
      PROVE  /\ rec(j).op = "dma" /\ rec(j).what = what
             /\ rec(j).at = at + j * MaxDmaLen
             /\ rec(j).units = IF j < k THEN MaxDmaLen
                               ELSE units - j * MaxDmaLen
             /\ rec(j).next = IF j < k THEN r + (j + 1) * RecordWords
                              ELSE None
  <2>1. Sits(cb, r + j * RecordWords, Part(r, what, at, units, 1, j))
    BY DEF ListAt
  <2>2. rec(j) = Part(r, what, at, units, 1, j)
    BY <2>1, WordIs
  <2>3. at + j * MaxDmaLen * 1 = at + j * MaxDmaLen
    BY <1>1, <1>2
  <2> HIDE DEF rec
  <2>4. QED
    BY <2>2, <2>3 DEF Part
<1> HIDE DEF k
<1>5. ASSUME NEW j \in 1 .. k
      PROVE  /\ rec(j - 1).next = r + j * RecordWords
             /\ rec(j).at = rec(j - 1).at + rec(j - 1).units * 1
  <2>1. j - 1 \in 0 .. k /\ j \in 0 .. k /\ j - 1 < k /\ (j - 1) + 1 = j
    BY <1>1
  <2>2. /\ rec(j - 1).next = r + ((j - 1) + 1) * RecordWords
        /\ rec(j - 1).at = at + (j - 1) * MaxDmaLen
        /\ rec(j - 1).units = MaxDmaLen
        /\ rec(j).at = at + j * MaxDmaLen
    BY <1>4, <2>1
  <2> HIDE DEF rec
  <2>3. at + j * MaxDmaLen = at + (j - 1) * MaxDmaLen + MaxDmaLen * 1
    BY <2>1 DEF MaxDmaLen
  <2>4. QED
    BY <2>1, <2>2, <2>3
<1>6. /\ 0 \in 0 .. k /\ k \in 0 .. k /\ ~ (k < k)
      /\ at + 0 * MaxDmaLen = at
  BY <1>1, <1>2
<1>7. rec(0).at = at
  BY <1>4, <1>6
<1>8. rec(k).next = None
  BY <1>4, <1>6
<1>9. rec(k).at + rec(k).units * 1 = at + units
  <2>1. rec(k).at = at + k * MaxDmaLen /\ rec(k).units = units - k * MaxDmaLen
    BY <1>4, <1>6
  <2> HIDE DEF rec
  <2>2. (at + k * MaxDmaLen) + (units - k * MaxDmaLen) * 1 = at + units
    BY <1>1 DEF MaxDmaLen
  <2>3. QED
    BY <2>1, <2>2
<1>10. ASSUME NEW j \in 0 .. k
       PROVE  rec(j).units \in 1 .. MaxDmaLen
  <2>1. CASE j < k
    <3>1. rec(j).units = MaxDmaLen
      BY <1>4, <2>1
    <3>2. QED
      BY <1>2, <3>1
  <2>2. CASE ~ (j < k)
    <3>1. j = k
      BY <1>1, <2>2
    <3>2. rec(j).units = units - k * MaxDmaLen
      BY <1>4, <2>2, <3>1
    <3> DEFINE u == units - k * MaxDmaLen
    <3>3. u \in Nat /\ 1 <= u /\ u <= MaxDmaLen
      BY <1>1 DEF MaxDmaLen
    <3> HIDE DEF u
    <3>4. u \in 1 .. MaxDmaLen
      BY <1>2, <3>3
    <3>5. QED
      BY <3>2, <3>4 DEF u
  <2>3. QED
    BY <2>1, <2>2
<1>11. \A j \in 0 .. k : rec(j).op = "dma" /\ rec(j).what = what
  BY <1>4
<1> HIDE DEF rec
<1>12. /\ \A j \in 0 .. k : rec(j).op = "dma" /\ rec(j).what = what
       /\ rec(0).at = at
       /\ \A j \in 1 .. k :
             /\ rec(j - 1).next = r + j * RecordWords
             /\ rec(j).at = rec(j - 1).at + rec(j - 1).units * 1
       /\ \A j \in 0 .. k : rec(j).units \in 1 .. MaxDmaLen
       /\ rec(k).next = None
       /\ rec(k).at + rec(k).units * 1 = at + units
  BY <1>5, <1>7, <1>8, <1>9, <1>10, <1>11
<1>13. QED
  BY <1>3, <1>12 DEF Covers, rec

(* The DMA lists that a slice's commands name are in the buffer until the  *)
(* slice is sent, and move its data to the last byte                       *)
(* (psb_cmdbuf_lldma_create_internal chains them), the VLC tables and the  *)
(* front end's state; whatever the sizes are, and whatever was written     *)
(* behind them.                                                            *)
THEOREM ListsKept == Spec => []DataIsWhole
<1>1. ASSUME EncInv
      PROVE  DataIsWhole
  <2> SUFFICES ASSUME ~Overrun, NEW m \in Range(msgs)
               PROVE  LET path == Path(m, TRUE)
                          head == Word(path[1])
                      IN  /\ Covers(Word(path[6]).record, "bits",
                                    m.slice.bits, Word(path[5]).size, 1)
                          /\ Word(path[5]).size = m.slice.size
                          /\ Covers(Word(path[3]).record, "vlc", 0,
                                    2 * VlcUnits, 2)
                          /\ Covers(head.save, "save", 0,
                                    4 * PreloadUnits, 4)
                          /\ Covers(head.restore, "restore", 0,
                                    4 * PreloadUnits, 4)
    BY DEF DataIsWhole
  <2>1. Buffer(cb) /\ Fits(cb)
    BY <1>1, NotOverrun DEF EncInv
  <2>2. m \in Messages /\ Sent(cb, m)
    BY <1>1, <2>1 DEF EncInv, Batched, Range
  <2> DEFINE s == m.slice
             f == s.from
             p == Path(m, TRUE)
  <2>3. s \in SliceRecord /\ f \in Nat /\ s.bits \in Nat
        /\ s.size \in Nat \ {0}
    BY <2>2 DEF Messages, SliceRecord
  <2>4. PICK r \in Nat : \E n \in Nat :
           /\ Laid(cb, s, r, n)
           /\ p = << f, f + 4, f + 5, f + 6, f + 51, f + 54, f + 55, f + 70,
                     f + 74 + n >>
    BY <2>1, <2>2, SentIs, ZenonT(30)
  <2>5. PICK n \in Nat :
           /\ Laid(cb, s, r, n)
           /\ p = << f, f + 4, f + 5, f + 6, f + 51, f + 54, f + 55, f + 70,
                     f + 74 + n >>
    BY <2>4
  <2> HIDE DEF p
  <2>8. p[1] = f /\ p[3] = f + 5 /\ p[5] = f + 51 /\ p[6] = f + 54
    BY <2>5
  <2>9. /\ ListAt(cb, r, "save", 0, PreloadUnits, 4)
        /\ ListAt(cb, r + 8, "restore", 0, PreloadUnits, 4)
        /\ ListAt(cb, r + 16, "vlc", 0, VlcUnits, 2)
        /\ ListAt(cb, r + 24, "bits", s.bits, s.size, 1)
    BY <2>5 DEF Laid
  <2> HIDE DEF s
  <2>10. /\ Word(f) = [op |-> "header", save |-> r, restore |-> r + 8]
         /\ Word(f + 5) = [op |-> "lldma", record |-> r + 16]
         /\ Word(f + 51) = [op |-> "setup", size |-> s.size]
         /\ Word(f + 54) = [op |-> "lldma", record |-> r + 24]
    <3>1. Laid(cb, s, r, n)
      BY <2>5
    <3>2. QED
      BY <2>3, <3>1, FoundAre, ZenonT(30)
  <2> HIDE DEF f
  <2>11. /\ Word(p[1]).save = r /\ Word(p[1]).restore = r + 8
         /\ Word(p[3]).record = r + 16 /\ Word(p[5]).size = s.size
         /\ Word(p[6]).record = r + 24
    BY <2>8, <2>10
  <2>12. /\ r + 8 \in Nat /\ r + 16 \in Nat /\ r + 24 \in Nat
         /\ VlcUnits \in Nat \ {0} /\ PreloadUnits \in Nat \ {0}
         /\ VlcUnits <= MaxDmaLen /\ PreloadUnits <= MaxDmaLen
    BY DEF VlcUnits, PreloadUnits, MaxDmaLen
  <2>13. FullRecords(VlcUnits) = 0 /\ FullRecords(PreloadUnits) = 0
    BY ShortLists
  <2>14. Covers(r, "save", 0, 4 * PreloadUnits, 4)
    BY <2>9, <2>12, <2>13, ShortCovers
  <2>15. Covers(r + 8, "restore", 0, 4 * PreloadUnits, 4)
    BY <2>9, <2>12, <2>13, ShortCovers
  <2>16. Covers(r + 16, "vlc", 0, 2 * VlcUnits, 2)
    BY <2>9, <2>12, <2>13, ShortCovers
  <2>17. Covers(r + 24, "bits", s.bits, s.size, 1)
    BY <2>3, <2>9, <2>12, DataCovers
  <2>18. QED
    BY <2>11, <2>14, <2>15, <2>16, <2>17 DEF p, s
<1>2. QED
  BY <1>1, Encodes, PTL
=============================================================================

------------------------------ MODULE MCEncode ------------------------------
(***************************************************************************)
(* The streams that TLC decodes.  Lengths are the code's own; what varies  *)
(* is which chunks a slice has, how long its lists are, how its data       *)
(* divides into LLDMA records, and which pictures refer to which.          *)
(***************************************************************************)
EXTENDS H264Stream

SliceOf(type, l0, l1, size) ==
    [type |-> type, l0 |-> l0, l1 |-> l1, size |-> size]

PictureOf(high, refs, weighted, slices, most) ==
    [high |-> high, refs |-> refs, weightedP |-> weighted,
     weightedB |-> weighted, slices |-> slices, most |-> most]

StreamOf(pictures, length, drops) ==
    [pictures |-> pictures, length |-> length, drops |-> drops]

Intra(high, refs) ==
    PictureOf(high, refs, FALSE, {SliceOf("I", 1, 1, 1)}, 1)

(* The longest commands there are: eight of them fit CMD_SIZE, nine do not *)
Longest ==
    StreamOf({Intra(TRUE, 16),
              PictureOf(TRUE, 16, TRUE, {SliceOf("B", 32, 32, 1)}, 9)}, 2,
             TRUE)

(* Ten B-slices with weighted prediction over four reference frames, as an *)
(* encoder that divides a High-profile picture into ten slices writes them *)
Ten ==
    StreamOf({Intra(TRUE, 4),
              PictureOf(TRUE, 4, TRUE, {SliceOf("B", 4, 1, 2000)}, 10)}, 2,
             TRUE)

(* Sixteen slices that fill CMD_SIZE to its last word: the 0 behind them   *)
(* is the first word of a record.                                          *)
Brimful ==
    StreamOf({Intra(TRUE, 16),
              PictureOf(TRUE, 16, FALSE, {SliceOf("P", 9, 1, 1)}, 16)}, 2,
             FALSE)

(* The shortest: pictures of more slices than a batch has messages, so     *)
(* that the messages behind a full batch are left to the next picture.     *)
Shortest ==
    StreamOf({PictureOf(FALSE, 0, FALSE, {SliceOf("I", 1, 1, 1)},
                        Batch + 2)}, 2, TRUE)

(* Slices of every type in one picture, with lists that do and do not fill *)
(* their last word, and data of one record, of one that is full, of a full *)
(* one and a byte, and of two that are full.                               *)
Mixed ==
    {StreamOf({Intra(high, refs),
               PictureOf(high, refs, weighted,
                   {SliceOf("I", 1, 1, MaxDmaLen), SliceOf("P", 4, 1, 16),
                    SliceOf("P", 5, 1, MaxDmaLen + 1),
                    SliceOf("B", 3, 2, 2 * MaxDmaLen)}, 2)}, 2, TRUE) :
        high \in BOOLEAN, refs \in {1, 4}, weighted \in BOOLEAN}

(* A picture of data that fills the bitstream buffer, to the last byte.    *)
Large ==
    StreamOf({PictureOf(TRUE, 2, FALSE,
                        {SliceOf("I", 1, 1, BitstreamSize \div 2),
                         SliceOf("I", 1, 1, 1000001)}, 5)}, 1, FALSE)

(* Pictures whose slices fit CMD_SIZE, but not behind those of one that    *)
(* was dropped before it.                                                  *)
Behind ==
    StreamOf({PictureOf(TRUE, 16, FALSE, {SliceOf("I", 1, 1, 1)}, 13)}, 2,
             TRUE)

(* Pictures whose data fills that buffer each: three of them that wait at  *)
(* once need more records than there are.                                  *)
Dropped ==
    StreamOf({PictureOf(FALSE, 0, FALSE,
                        {SliceOf("I", 1, 1, 699040)}, 6)}, 3, TRUE)

(* Pictures that refer to each other, to two at once, in lists longer than *)
(* the frames there are, on few surfaces that are used again.              *)
Referring ==
    StreamOf({PictureOf(FALSE, 2, FALSE, {SliceOf("I", 1, 1, 1)}, 1),
              PictureOf(FALSE, 2, FALSE, {SliceOf("P", 3, 1, 1)}, 1),
              PictureOf(FALSE, 2, FALSE, {SliceOf("B", 1, 2, 1)}, 1)}, 5,
             FALSE)

MCStreams == Mixed \cup {Longest, Ten, Brimful, Shortest, Behind, Large,
                      Dropped, Referring}

(* Nothing tells one surface from another.                                 *)
Interchangeable == Permutations(Surface)
=============================================================================

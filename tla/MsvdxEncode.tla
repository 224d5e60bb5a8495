---------------------------- MODULE MsvdxEncode ----------------------------
(***************************************************************************)
(* What psb_cmdbuf.c and psb_H264.c write for the slices of a picture, in  *)
(* the sizes of the code: the commands from the start of the command       *)
(* buffer up, the LLDMA records from CMD_SIZE up, and for every slice a    *)
(* message that names the record which copies its commands into the MTX.   *)
(*                                                                         *)
(* MsvdxCmdbuf follows the messages through the ring, with a slice's       *)
(* commands and data as one mark each; here the marks are opened.  Of a    *)
(* command only its header and its length are kept: the words in between   *)
(* are register values and addresses that nobody follows.  Words are 32    *)
(* bits, an address is an index of words into the buffer, and a record     *)
(* takes 8 of them.                                                        *)
(***************************************************************************)
EXTENDS Integers, Sequences, SequencesExt

CONSTANTS
    Streams,    \* the streams considered: `pictures', the kinds of picture
                \* it has, `length' (bound: how many), and `drops' (bound:
                \* whether the decoder drops any of them).  A picture is
                \* [high, refs, weightedP, weightedB] of its parameters,
                \* `slices', its kinds of slice, and `most' (bound)
    Batch       \* entries of psb_cmdbuf_s.msgs (16)

(* What H.264 allows a picture and a slice; no slice is empty.             *)
ASSUME EncodeAssumption ==
    /\ Batch \in Nat \ {0}
    /\ \A stream \in Streams :
          stream.length \in Nat /\ stream.drops \in BOOLEAN
    /\ \A p \in UNION {stream.pictures : stream \in Streams} :
          /\ {p.high, p.weightedP, p.weightedB} \subseteq BOOLEAN
          /\ p.refs \in 0 .. 16
          /\ p.most \in Nat
          /\ \A s \in p.slices :
                /\ s.type \in {"I", "P", "B"}
                /\ {s.l0, s.l1} \subseteq 1 .. 32
                /\ s.size \in Nat \ {0}

CmdSize == 12288            \* 0x3000, bytes of commands
LldmaSize == 8192           \* 0x2000, bytes of LLDMA records
BitstreamSize == 4194304    \* BITSTREAM_SIZE, 4 * 1024 * 1024
MaxDmaLen == 65535          \* MAX_DMA_LEN, 0xffff units
VlcUnits == 520             \* ui16H264VLCTableData, 16 bits each
PreloadUnits == 102         \* sizeof(PRELOAD) / 4
VlcRegisters == 22          \* pairs in ui32H264VLCTableRegValPair
CmdWords == CmdSize \div 4
RecordWords == 8            \* sizeof(DMA_sLinkedList) / 4
None == 0                   \* no next record; address 0 holds a command

VARIABLES
    pc,         \* "idle", "picture", or "submit": a slice is written
    picture,    \* ctx->pic_params
    count,      \* slices of the picture written so far
    used,       \* sBitstreamUsed
    cb,         \* the command buffer and its cursors
    slice,      \* the slice written last: its data and its commands
    msgs,       \* cmdbuf->msgs[0 .. cmd_count - 1]
    attached,   \* obj_context->cmdbuf # NULL
    written     \* history: slices written since the buffer was started over

encodeVars == <<pc, picture, count, used, cb, slice, msgs, attached, written>>

(* A buffer started over.  `mem' maps the address of every header and      *)
(* every record to what it says; other words are not followed.             *)
Cleared == [idx |-> 0, start |-> 0, lldma |-> CmdWords, mem |-> << >>]

NoSlice == [bits |-> 0, size |-> 0, from |-> 0, to |-> 0]

NoPicture == [high |-> FALSE, refs |-> 0, weightedP |-> FALSE,
              weightedB |-> FALSE, slices |-> {}, most |-> 0]

EncodeInit ==
    /\ pc = "idle"
    /\ picture = NoPicture
    /\ count = 0
    /\ used = 0
    /\ cb = Cleared
    /\ slice = NoSlice
    /\ msgs = << >>
    /\ attached = FALSE
    /\ written = 0

-----------------------------------------------------------------------------
(* Writing.  What lay where words lo .. hi - 1 are written is gone.        *)
Extent(word) == IF word.op = "dma" THEN RecordWords ELSE 1

Overwritten(mem, lo, hi) ==
    [a \in {b \in DOMAIN mem : b + Extent(mem[b]) <= lo \/ b >= hi} |-> mem[a]]

Words(c, n) == [c EXCEPT !.mem = Overwritten(@, c.idx, c.idx + n),
                         !.idx = @ + n]

(* A header at a, an address that has been passed over already.            *)
Header(c, a, word) ==
    [c EXCEPT !.mem = [b \in DOMAIN @ \cup {a} |-> IF b = a THEN word
                                                   ELSE @[b]]]

Command(c, op) == Header(Words(c, 1), c.idx, [op |-> op])

(* One LLDMA record, of units units from at on.                            *)
Record(c, what, at, units, next) ==
    LET placed == [c EXCEPT !.mem = Overwritten(@, c.lldma,
                                                c.lldma + RecordWords),
                            !.lldma = @ + RecordWords]
    IN  Header(placed, c.lldma,
               [op |-> "dma", what |-> what, at |-> at, units |-> units,
                next |-> next])

(* A slip: a transfer that fills its records to the last unit gets no last *)
(* record, as the comparison is >= instead of >.                           *)
FullRecordsAll(units) == units \div MaxDmaLen

(* The records of a transfer that are full and point to another.           *)
FullRecords(units) == (units - 1) \div MaxDmaLen

(* psb_cmdbuf_lldma_create_internal's loop: full records in a chain, then  *)
(* the rest in a record that ends the list.                                *)
Lldma(c, what, at, units, width) ==
    LET full == FullRecords(units)
        Link(d, k) == Record(d, what, at + (k - 1) * MaxDmaLen * width,
                             MaxDmaLen, d.lldma + RecordWords)
        chained[k \in 0 .. full] ==
            IF k = 0 THEN c ELSE Link(chained[k - 1], k)
        rest == units - full * MaxDmaLen
    IN  IF rest = 0 THEN chained[full]
        ELSE Record(chained[full], what, at + full * MaxDmaLen * width, rest,
                    None)

(* psb_cmdbuf_lldma_write_cmdbuf: the command first, then its records.     *)
LldmaCommand(c, what, at, units, width) ==
    LET headed == Header(Words(c, 1), c.idx, [op |-> "lldma",
                                              record |-> c.lldma])
    IN  Lldma(headed, what, at, units, width)

(* psb_cmdbuf_reg_start_block, _set for each pair, _end_block.             *)
Registers(c, pairs) ==
    LET end == Words(c, 1 + 2 * pairs)
    IN  Header(end, c.idx, [op |-> "regs",
                            pairs |-> (end.idx - c.idx - 1) \div 2])

(* The chunk header counts symbols of 16 bits, less one.                   *)
SymbolsLess1(words) == 2 * words - 1

(* psb_cmdbuf_rendec_start_chunk, _write for each word, _end_chunk.        *)
Chunk(c, words) ==
    Header(Words(c, 1 + words), c.idx,
           [op |-> "chunk", less1 |-> SymbolsLess1(words)])

(* A slip: the separator is counted as well, and the next command is       *)
(* looked for one word behind where it is.                                 *)
RendecLengthAll(start, idx) == idx - start + 1

(* block_size is taken before the separator is written and counts the      *)
(* header, so it is the number of words that follow the header.            *)
RendecLength(start, idx) == idx - start

(* psb_cmdbuf_rendec_start_block, the chunks, _rendec_end_block.           *)
Rendec(c, chunks) ==
    LET open == Words(c, 3)
        chunked[k \in 0 .. Len(chunks)] ==
            IF k = 0 THEN open ELSE Chunk(chunked[k - 1], chunks[k])
        full == chunked[Len(chunks)]
    IN  Header(Command(full, "separator"), c.idx,
               [op |-> "rendec", length |-> RendecLength(c.idx, full.idx)])

-----------------------------------------------------------------------------
(* psb__H264_FE_state: the header names the records that save and restore  *)
(* the front end's state.                                                  *)
FeState(c) ==
    LET save == Lldma(c, "save", 0, PreloadUnits, 4)
        both == Lldma(save, "restore", 0, PreloadUnits, 4)
    IN  Header(Words(both, 4), c.idx,
               [op |-> "header", save |-> c.lldma, restore |-> save.lldma])

SkipLength(start, idx) == idx - (start + 1)

(* psb__H264_write_VLC_tables, between psb_cmdbuf_skip_start_block and     *)
(* _end_block: the MTX skips it unless the context was switched.           *)
VlcTables(c) ==
    LET table == LldmaCommand(Words(c, 1), "vlc", 0, VlcUnits, 2)
        regs == Registers(table, VlcRegisters)
    IN  Header(regs, c.idx, [op |-> "skip",
                             length |-> SkipLength(c.idx, regs.idx)])

(* psb_cmdbuf_lldma_write_bitstream.                                       *)
Bitstream(c, at, size) ==
    LET setup == Header(Words(c, 3), c.idx, [op |-> "setup", size |-> size])
    IN  LldmaCommand(setup, "bits", at, size, 1)

(* A slip: a word for every entry.                                         *)
ListWordsEach(n) == n

(* Four entries of a reference list go into a word.                        *)
ListWords(n) == (n + 3) \div 4

Only(condition, chunks) == IF condition THEN chunks ELSE << >>

Weighted(p, s) ==
    \/ p.weightedP /\ s.type = "P"
    \/ p.weightedB /\ s.type = "B"

(* psb__H264_build_SCA_chunk: six lists of 16 bytes, two of 64.            *)
ScalingWords == (6 * 16 + 2 * 64) \div 4

(* psb__H264_build_picture_order_chunk: top and bottom of the picture, and *)
(* of each reference frame.                                                *)
OrderWords(p) == 2 + 2 * p.refs

(* psb__H264_build_B_slice_chunk: the colocated picture and its buffer,    *)
(* the inverse of list 0, a byte each of 32 entries, and list 1.           *)
BSliceWords(s) == 2 + 32 \div 4 + ListWords(s.l1)

(* 32 weights and 32 offsets, padded if the list is shorter.               *)
WeightWords == 64

(* The words of the chunks psb__H264_build_rendec_params writes, in order: *)
(* back-end control, sequence registers, scaling lists, picture order and  *)
(* B-slice information, list 0, reference addresses, the two tables of     *)
(* weights, and the sequence commands.                                     *)
Chunks(p, s) ==
    LET b == s.type = "B"
    IN  << 1, 7 >>
        \o Only(p.high, << ScalingWords >>)
        \o Only(b, << OrderWords(p), BSliceWords(s) >>)
        \o Only(s.type \in {"P", "B"}, << ListWords(s.l0) >>)
        \o Only(p.refs > 0, << 2 * p.refs >>)
        \o Only(Weighted(p, s), << WeightWords >>)
        \o Only(Weighted(p, s) /\ b, << WeightWords >>)
        \o << 10, 1 >>

(* psb__H264_build_register: profile, SPS, PPS, picture, three of slice.   *)
FrontEnd(c) == Registers(c, 7)

(* psb__H264_process_slice: the slice's commands, up to CMD_COMPLETION.    *)
Encoded(c, p, s, at) ==
    LET front == Bitstream(VlcTables(FeState(c)), at, s.size)
    IN  Command(Rendec(FrontEnd(front), Chunks(p, s)), "completion")

-----------------------------------------------------------------------------
(* msvdx_decode_begin.                                                     *)
BeginPicture(p) ==
    /\ pc = "idle"
    /\ picture' = p
    /\ count' = 0
    /\ used' = 0
    /\ pc' = "picture"
    /\ UNCHANGED <<cb, slice, msgs, attached, written>>

(* psb_context_get_next_cmdbuf starts the buffer over when no message is   *)
(* waiting to be sent.                                                     *)
NextCmdbuf == IF msgs = << >> THEN Cleared ELSE cb

Rounded(size) == 16 * ((size + 15) \div 16)

(* msvdx_decode_slice up to psb_context_submit_cmdbuf.  A slice that does  *)
(* not fit the bitstream buffer is refused, and the picture given up.      *)
Slice(s) ==
    /\ pc = "picture"
    /\ count < picture.most
    /\ used + s.size <= BitstreamSize
    /\ cb' = Encoded(NextCmdbuf, picture, s, used)
    /\ slice' = [bits |-> used, size |-> s.size,
                 from |-> NextCmdbuf.start, to |-> cb'.idx]
    /\ used' = used + Rounded(s.size)
    /\ count' = count + 1
    /\ attached' = TRUE
    /\ written' = IF msgs = << >> THEN 1 ELSE written + 1
    /\ pc' = "submit"
    /\ UNCHANGED <<picture, msgs>>

(* A slip: the batch takes one message too many.                           *)
BatchFullLate == Len(msgs) > Batch

BatchFull == Len(msgs) >= Batch

(* psb_context_submit_cmdbuf waits for a full batch first.  What comes of  *)
(* the wait is ignored, and the buffer is not started over; the flush took *)
(* it from the context.                                                    *)
FlushFirst ==
    /\ pc = "submit"
    /\ BatchFull
    /\ msgs' = << >>
    /\ attached' = FALSE
    /\ UNCHANGED <<pc, picture, count, used, cb, slice, written>>

(* cmd_start is set to where the next commands go.                         *)
Advanced(c) == [c EXCEPT !.start = c.idx]

(* A slip: the size is kept in ten bits.                                   *)
SizeFieldTen(bytes) == bytes % 1024

(* msg[0] keeps the size in twelve bits.                                   *)
SizeField(bytes) == bytes % 4096

(* Then it writes the record that copies the commands into the MTX, and    *)
(* the message that names it.                                              *)
Submit ==
    /\ pc = "submit"
    /\ ~BatchFull
    /\ LET bytes == 4 * (cb.idx - cb.start)
           ended == [cb EXCEPT !.mem = Overwritten(@, cb.idx, cb.idx + 1)]
           copied == Lldma(ended, "copy", cb.start, bytes \div 4, 1)
       IN  /\ msgs' = Append(msgs, [size |-> SizeField(bytes),
                                    record |-> cb.lldma, slice |-> slice])
           /\ cb' = Advanced(copied)
    /\ pc' = "picture"
    /\ UNCHANGED <<picture, count, used, slice, attached, written>>

(* msvdx_decode_end: the batch is sent and answered, or given up; but if   *)
(* the context has no command buffer, the batch stays.                     *)
EndPicture ==
    /\ pc = "picture"
    /\ msgs' = IF attached THEN << >> ELSE msgs
    /\ attached' = FALSE
    /\ pc' = "idle"
    /\ UNCHANGED <<picture, count, used, cb, slice, written>>

(* The picture is not ended: its messages wait, and will be sent with the  *)
(* next picture's.                                                         *)
DropPicture ==
    /\ pc = "picture"
    /\ pc' = "idle"
    /\ UNCHANGED <<picture, count, used, cb, slice, msgs, attached, written>>

(* msvdx_decode_configure clears the context, not the command buffer.      *)
NewContext ==
    /\ attached' = FALSE
    /\ UNCHANGED <<pc, picture, count, used, cb, slice, msgs, written>>

-----------------------------------------------------------------------------
(* The firmware.  It takes a command's length from its header.  `fresh'    *)
(* says that the context was switched, and nothing may be skipped.         *)
Word(a) == IF a \in DOMAIN cb.mem THEN cb.mem[a] ELSE [op |-> "data"]

Length(word, fresh) ==
    CASE word.op = "header" -> 4
      [] word.op = "skip"   -> IF fresh THEN 1 ELSE 1 + word.length
      [] word.op = "lldma"  -> 1
      [] word.op = "regs"   -> 1 + 2 * word.pairs
      [] word.op = "setup"  -> 3
      [] word.op = "rendec" -> 1 + word.length

Operations == {"header", "skip", "lldma", "regs", "setup", "rendec"}

(* The commands it finds from lo on, as addresses, before end.  The last   *)
(* one is what it cannot step over.                                        *)
Walk(lo, end, fresh) ==
    LET walk[a \in lo .. end] ==
            IF Word(a).op \in Operations /\ a + Length(Word(a), fresh) <= end
            THEN << a >> \o walk[a + Length(Word(a), fresh)]
            ELSE << a >>
    IN  walk[lo]

(* The chunks of a rendec block reach from behind its two slice header     *)
(* words to its separator.                                                 *)
ChunksReach(a) ==
    LET end == a + Word(a).length
        next(b) == b + 1 + (Word(b).less1 + 1) \div 2
        step[b \in a .. end] ==
            IF Word(b).op = "chunk" /\ next(b) <= end
            THEN step[next(b)]
            ELSE b
    IN  step[a + 3] = end /\ Word(end).op = "separator"

Ops(path) == [i \in DOMAIN path |-> Word(path[i]).op]

Fresh == << "header", "skip", "lldma", "regs", "setup", "lldma", "regs",
            "rendec", "completion" >>
Same == << "header", "skip", "setup", "lldma", "regs", "rendec",
           "completion" >>

Path(m, fresh) == Walk(m.slice.from, m.slice.to - 1, fresh)

-----------------------------------------------------------------------------
(* The largest size a message has room for, in twelve bits.                *)
LargestSize == 4095

(* The state is what the cursors can hold; the messages fit their array,   *)
(* which has no check of its own (psb_shim.h, msgs[16][8]).                *)
EncodeTypeOK ==
    /\ pc \in {"idle", "picture", "submit"}
    /\ picture \in {NoPicture}
                  \cup UNION {stream.pictures : stream \in Streams}
    /\ count \in 0 .. picture.most
    /\ used \in 0 .. BitstreamSize
    /\ cb.idx \in Nat /\ cb.start \in 0 .. cb.idx /\ cb.lldma \in Nat
    /\ \A a \in DOMAIN cb.mem :
          a \in 0 .. (IF cb.mem[a].op = "dma" THEN cb.lldma ELSE cb.idx)
    /\ Len(msgs) <= Batch
    /\ \A m \in Range(msgs) : m.size \in 0 .. LargestSize
    /\ attached \in BOOLEAN
    /\ written \in Nat

(* The commands, or the 0 that a submit writes behind them, have run into  *)
(* the records: see CommandsThenRecords.                                   *)
Overrun == 4 * (cb.idx + 1) > CmdSize

(* The records have run past the buffer's end.                             *)
PastEnd == 4 * cb.lldma > CmdSize + LldmaSize

(* The MTX is given a slice's own commands and no others: the record it    *)
(* copies by and the size in the message agree, and both are the slice's.  *)
Copied(m) ==
    LET r == Word(m.record)
    IN  /\ r.op = "dma" /\ r.what = "copy" /\ r.next = None
        /\ r.at = m.slice.from
        /\ m.slice.from + r.units = m.slice.to
        /\ m.size = 4 * r.units

(* The firmware, which goes from header to header in what it copied, finds *)
(* exactly the commands that were written for a slice, up to its           *)
(* CMD_COMPLETION, whether it loads the VLC tables or skips them, and a    *)
(* rendec block is chunks up to its separator; this for every slice still  *)
(* in the batch, whatever has been written since.                          *)
FirmwareFollows ==
    ~Overrun /\ ~PastEnd => \A m \in Range(msgs) :
        /\ Copied(m)
        /\ Ops(Path(m, TRUE)) = Fresh
        /\ Ops(Path(m, FALSE)) = Same
        /\ Last(Path(m, TRUE)) = m.slice.to - 1
        /\ ChunksReach(Path(m, TRUE)[8])

(* The records from r on are one list of `what', which covers `size' bytes *)
(* from at on in one piece.                                                *)
Covers(r, what, at, size, width) ==
    \E k \in 0 .. size \div MaxDmaLen :
        LET rec(j) == Word(r + j * RecordWords)
        IN  /\ \A j \in 0 .. k : rec(j).op = "dma" /\ rec(j).what = what
            /\ rec(0).at = at
            /\ \A j \in 1 .. k :
                  /\ rec(j - 1).next = r + j * RecordWords
                  /\ rec(j).at = rec(j - 1).at + rec(j - 1).units * width
            /\ \A j \in 0 .. k : rec(j).units \in 1 .. MaxDmaLen
            /\ rec(k).next = None
            /\ rec(k).at + rec(k).units * width = at + size

(* Every DMA list a slice's commands name is still there when the slice is *)
(* sent, and it moves what the command says: the slice's bytes to the last *)
(* one, the VLC tables, and the front end's state out and in.  The bytes   *)
(* themselves may be the next picture's, if a message was left to it: that *)
(* is MsvdxCmdbuf's subject.                                               *)
DataIsWhole ==
    ~Overrun /\ ~PastEnd => \A m \in Range(msgs) :
        LET path == Path(m, TRUE)
            head == Word(path[1])
        IN  /\ Covers(Word(path[6]).record, "bits", m.slice.bits,
                      Word(path[5]).size, 1)
            /\ Word(path[5]).size = m.slice.size
            /\ Covers(Word(path[3]).record, "vlc", 0, 2 * VlcUnits, 2)
            /\ Covers(head.save, "save", 0, 4 * PreloadUnits, 4)
            /\ Covers(head.restore, "restore", 0, 4 * PreloadUnits, 4)

(* The buffer is "CMD_SIZE of commands, then LLDMA_SIZE" (psb_shim.h:212): *)
(* whatever the slices are, no command of the first eight since it was     *)
(* started over is written where the records are, and no record of the     *)
(* first 38 behind the buffer's end, if one picture wrote them all.  It is *)
(* not started over while a message waits, so the slices of a picture that *)
(* was dropped, or left by a flush in mid-picture, count; and pictures     *)
(* that each fill the bitstream buffer need more records than there are.   *)
(* Nothing in the code asks where the cursors are, and ten B slices with   *)
(* weights do overrun.                                                     *)
SafeSlices == 8
SafeLists == 38

CommandsThenRecords ==
    /\ written \in 1 .. SafeSlices => ~Overrun
    /\ written \in 1 .. SafeLists /\ written = count => ~PastEnd
=============================================================================

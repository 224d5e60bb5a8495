# A verification of the Haiku Chromium port

This directory holds TLA+ modules that model the concurrent and stateful core
of the repository's current port (`src/chromium114_port`): the hardware video
decoder, and the browser process with its native windows, install button,
bookmarks and clipboard. With them are the TLC runs that model-check them and
TLAPS proofs about them. This file says of each part what is modelled, what
was checked, within which bounds, what is proved, and what was left out.

Paths below are relative to `src/chromium114_port/files/`; `msvdx/` is short
for `media/gpu/haiku/msvdx/`, `decoder.cc` for
`media/gpu/haiku/haiku_msvdx_video_decoder.cc`, `views.cc` for
`haiku_port/ozone/haiku_beapi_views.cc` and `shell.cc` for
`content/shell/browser/shell_platform_delegate_aura.cc`.

1. [The system](#1-the-system)
2. [Modules and how they correspond to the code](#2-modules-and-how-they-correspond-to-the-code)
3. [What the runs check](#3-what-the-runs-check)
4. [Where the code and its comments disagree](#4-where-the-code-and-its-comments-disagree)
5. [Fairness](#5-fairness)
6. [What is proved](#6-what-is-proved)
7. [Assumptions about what is not in the repository](#7-assumptions-about-what-is-not-in-the-repository)
8. [What is not modelled, and why](#8-what-is-not-modelled-and-why)
9. [Plan](#9-plan)

## 1. The system

The repository ports Chromium to 32-bit Haiku. Most of it is patches to a tree
it does not contain, build scripts, and thin platform files. What it implements
itself, with state that lives across calls and with concurrency, is:

**The MSVDX H.264 decoder** (`media/gpu/haiku/`), a user-space driver for the
GMA500's video block under Chromium's `VideoDecoder` interface:

| Part | State it keeps | Operations | Talks to |
| --- | --- | --- | --- |
| Host-to-MTX ring, `msvdx/msvdx.c` 614-678 | read and write index registers, 100 words of ring | `msvdx_send`, `msvdx_receive` | the MTX firmware, which reads and writes concurrently |
| Command buffer and batch, `msvdx/psb/psb_cmdbuf_host.c` | `msgs`, `cmd_count`, `obj_context->cmdbuf`, `sFence` | get next, submit, flush, `wait_for_fence` | the ring |
| Command encoder, `msvdx/psb/psb_cmdbuf.c`, `psb_H264.c` | commands growing up from the buffer's start, LLDMA records from `CMD_SIZE` | one call per command, chunk and record | the batch; the firmware, which walks what was written |
| Slice encoder, `msvdx/psb/psb_H264.c` | colocated buffers, each surface's place among the references, VLC table | create and destroy context, begin, slice, end | command buffer, memory |
| Decode entry points, `msvdx/msvdx_decode.c` | `sOpen`, `sSurfaces`, `sSurface[]`, bitstream buffer and fill | open, configure, begin, slice, end, read, close | all of the above |
| Ownership, `msvdx/msvdx.c` 485-610 | `sOwner` port, `sRegsArea`, `sHwUp` | `msvdx_open`, `msvdx_close` | other teams, through the kernel's port table and the registers |
| Memory and MMU, `msvdx/msvdx.c` 120-360 | areas, page tables, `sNextDev` | `msvdx_alloc`, `msvdx_free`, `mmu_map` | kernel areas; the MTX, which reads memory on its own |
| Decoder object, `decoder.cc` | `hardware_open_`, `pool_`, `decoder_`, `timestamps_`, `g_hardware_in_use` | `Initialize`, `Decode`, `Reset`, `Output`, `Configure`, `Shutdown` | Chromium's `H264Decoder` (parsing and DPB), which calls back into the accelerator |

One picture goes: `Decode` → `H264Decoder` → `CreateH264Picture` takes a
surface from the pool → `SubmitFrameMetadata` (`msvdx_decode_begin`) →
`SubmitSlice` per slice (bitstream copied, commands written, one message joins
the batch) → `SubmitDecode` (`msvdx_decode_end`: the batch is put on the ring
and the host waits for the last fence, two seconds at most) → later `Output`
copies the surface into a frame with the timestamp of the buffer it came from.

Hard here: the MTX runs concurrently and reads memory and ring as they are
*then*; a time-out leaves it running; replies may come late; allocation fails
half-way through a configuration; several applications share one block and
each may die at any register write; pictures outlive the call that made them;
buffers of fixed size are filled by as many slices as a picture has.

What makes it correct: messages arrive once, in order; a successful `end()`
means the picture was decoded from its own data; a slice's commands and data
are complete and lead to the reference pictures it names; one owner at a time;
one picture per surface; every frame shows its own pixels with its own
timestamp; nothing the hardware uses is freed.

**The browser process on Haiku** (`haiku_port/ozone/`, `content/shell/`):
Chromium's UI thread, viz's thread, and one looper thread per `BWindow`.

| Part | State it keeps | Hard behaviour | Correct when |
| --- | --- | --- | --- |
| Windows: `haiku_window.cc`, `haiku_window_manager.cc`, `haiku_surface_factory.cc`, `HaikuContentView` and `BrowserNativeWindow` in `views.cc` | `bounds_`, the toolbar's inset, the manager's widget table, the view's frame bitmap, the canvas | bounds reported by a looper meet a `SetBoundsInPixels`; resizes that come before the toolbar; presents that fail or meet a new size; closes clicked twice | both sides settle on one size, nobody is told a size that was not asked for, the screen follows the canvas, a window closes once |
| Toolbar and install button: `BrowserChromeView` in `views.cc`, `shell.cc` | the app on offer, open manifest requests, launchers and Deskbar entries | answers of a page that was left; a click handled after the page changed; files half-written | only the shown page's app is offered and installed, no entry without its launcher |
| Bookmarks: `BookmarkStore`, `BookmarksWindow` in `views.cc` | `items_`, `loaded_`, a file, three locks | loaded once, file erased and rewritten at every addition, a crash between two lines, loopers that lock each other | a saved bookmark is not lost, no page twice, no looper waits for ever |
| Clipboard: `haiku_clipboard.cc`, `ClipboardChangeWatcher` in `views.cc` | `is_owner_`, the change callback | a notice that meets an offer made since | no change missed, a stale offer never taken for the clipboard's content |
| `haiku_application.cc` | `application_`, `ready_` | the destructor posts to an application whose thread may be ending | start-up never hangs, shutdown joins |

They meet where they share a thread or a lock: the star runs on the browser
window's looper with that window locked, so the UI thread waits when it needs
the window; close clicks, bounds, install clicks and clipboard notices are
tasks in one queue of the UI thread; a page load changes the button that a
click already under way was about.

**Everything else**: base, net, service and V8 platform files (wrappers of
system calls), the launcher glue, source patches, the older 108 and 87 ports,
kernel patches, build scripts, a drawing probe. None keeps state of its own in
the running browser.

`PROJECT.json` lists each part with its status, and under "hazards" each place
in this code that is hard to test, with the properties aimed at it.

## 2. Modules and how they correspond to the code

```
MessageQueue   <- implemented by -  MtxChannel   -- EXTENDS --> MtxRing
PictureApi     <- implemented by -  MsvdxCmdbuf  -- EXTENDS --> MtxRing
MsvdxOwner     HaikuMsvdxDecoder    MsvdxMemory

MsvdxEncode, H264References     <- EXTENDS -  H264Stream    <- EXTENDS -  MCEncode
HaikuWindow <- BrowserShell, HaikuClipboard
BrowserShell, BookmarkStore, HaikuClipboard
                                <- EXTENDS -  HaikuBrowser  <- EXTENDS -  MCBrowser

X_proof  -- EXTENDS --> X     for MtxChannel, MsvdxCmdbuf, MsvdxOwner,
                              HaikuMsvdxDecoder, MsvdxMemory, H264Stream,
                              HaikuWindow and HaikuBrowser
```

A specification whose constants are numbers and sets of model values is
checked directly by its `.cfg`. The two whose inputs are structured, streams
of pictures and budgets of user input, have modules of their own that define
them: `MCEncode` and `MCBrowser`.

### The decoder

**`MtxRing`** is the ring's data structure: word indices `rd` and `wr` as in
the two registers, `Put` for a whole `msvdx_send` and `Take`/`SkipPad` for the
firmware. Only one kind of message is ever sent (8 words), so a message stands
whole at its first word's index. There is no count: `msvdx_send` looks at `rd`
only when it must wrap, and compares it with 0 only.

**`MtxChannel`** puts the ring between a sender and the MTX at the grain of the
registers: `SendBegin` reads both indices, `SendPad` publishes the pad,
`SendWrite` the message and its index; the MTX may move between any two. Each
initial state fixes a `window`, the number of messages the host keeps in
flight. **`MessageQueue`** is the abstract promise: a first-in first-out queue.

**`MsvdxCmdbuf`** follows pictures through `begin`, `slice` and `end`. Each of
its host actions is one handler up to the point where the host waits or where
the MTX can see a difference: `SliceQueued` and `SliceFlushes` are the two
outcomes of `psb_context_submit_cmdbuf`; a flush is a loop of `SendMessage`
(a `Put` on the ring) and then `WaitAnswered`, `WaitSkips` or `WaitTimesOut`
(`wait_for_fence`). What a message points at is modelled separately from the
message, because it is overwritten separately: `commands` is what the command
buffer holds, `bits` what the bitstream buffer holds. The MTX takes a message,
frees its words, and later executes it on whatever memory holds at that
moment; `ran` records what it found. `careless` callers also drop pictures
half-way (`Reset` between slices, a full bitstream) and go on after a failed
`end()`. **`PictureApi`** is what `msvdx_decode.h` promises, without command
buffers, rings and fences; the refinement mapping takes `executed` from `ran`.

**`MsvdxEncode`** opens the marks `MsvdxCmdbuf` keeps: what `psb_cmdbuf.c` and
the slice path of `psb_H264.c` write, in the code's own sizes. A word of the
buffer is a command header with its length, a chunk of a rendec block, an LLDMA
record or "data"; register values and addresses in between are counted, not
kept. `Encoded` is a slice's commands from its header to `CMD_COMPLETION` with
the records its DMA lists take; `Slice` writes them behind what the buffer
holds, `Submit` adds the record that copies them into the MTX and the message
that names it. `Path` is the firmware's walk from header to header, the one
external piece. `Overrun` says that commands have grown into the records,
`PastEnd` that records have grown out of the buffer: the code asks for neither.
A flush is what it does to the batch and the buffer; how it comes out is
`MsvdxCmdbuf`'s part. The buffer is started over only when no message waits
(`psb_context_get_next_cmdbuf`), and messages do wait from picture to picture:
`DropPicture` is a picture that never came to `end()`, and after a flush in
mid-picture `attached` (`obj_context->cmdbuf`) is FALSE, so that `EndPicture`
leaves what came behind it. `written` is history: slices since the buffer was
started over.

**`H264References`** is what `psb_H264.c` remembers of pictures: `dpbIdx` and
`colIdx` are the two fields of a surface's `extra_info`, `colocated` the
count of colocated buffers handed out. `PictureParam` gives references their
places from the picture's `ReferenceFrames` (which `decoder.cc` fills from
`ref_pic_listp0`) and the target a colocated buffer; a slice makes the lists,
the table of addresses and the inverse list from them. Frames only:
`SubmitFrameMetadata` refuses interlaced streams. **`H264Stream`** runs both
halves in one step, so that what a slice's reference chunks say and how long
they are go together; in streams whose caller `drops` pictures, `GiveUp` ends
one without `msvdx_decode_end`.

**`MsvdxOwner`** is `Initialize` and `Shutdown` of several decoders in several
teams. `msvdx_open` is split at each kernel call and each group of register
writes, since the block's registers are shared; every step may fail the way
the code's early returns have it, and every failure goes on to `msvdx_close`
as in `msvdx_decode_open`. `Die` and `Restart` may happen anywhere.
`hw` records who wrote the block last; `looked` and `raced` are history.

**`HaikuMsvdxDecoder`** is the surface pool (`free` counts how often each
surface is in `free_`), the pictures alive (`current`, `dpb`, `lists`), what
each surface contains, and `timestamps_`. `late` holds pictures whose `end()`
timed out: the MTX may still write their surfaces (`LateWrite`). The actions
between `SubmitFrameMetadata` and `Output` are the accelerator's methods;
`StorePicture`, `LeaveDpb` and `FlushDone` are Chromium's, see section 7.

**`MsvdxMemory`** is every buffer the decoder works in: the C variable that
holds it, its area, its decoder address, the page-table entry, and `busy`, the
areas the MTX may be using. Allocation fails in both ways the code has (no
area; an area that `mmu_map` could not map). `Configure`, `Close` and the
unwinding paths release what the code releases, in the code's order. A slice's
message waits in the command buffer, and `pending` is what the waiting messages
point at: a flush, in mid-picture or at the end, hands it to the MTX, a
reconfiguration does not. `left` is history: what a reconfiguration freed while
a message of a dropped picture pointed there.

### The browser process

**`HaikuWindow`** has for each window the `BWindow` (`native`: place, height,
inset, the content view's height and the `B_VIEW_RESIZED` notices its looper
has not handled), `bounds_`, the manager's entry, viz's canvas and the view's
frame bitmap; and one queue `tasks` of what loopers posted to the UI thread.
`SetBoundsInPixels`, `SetTopInset` and opening act on the `BWindow` at once,
under its lock, as the code does; the user's moves and resizes leave a notice,
which `FrameResized` turns into a task, which `OnBoundsFromLooper` turns into
`bounds_`. `QuitRequested`, `OnCloseFromLooper`, `CloseShell` and `Quit` are a
close; `quitting` is the time in which the UI thread is inside `~HaikuWindow`
and waits for the looper. `PresentCanvas` copies what was painted and not yet
presented, or nothing when the bitmap cannot be had.

**`BrowserShell`** adds `page`, `loading`, the open manifest `requests` and the
button: `StartLoad`, `Commit` and `EndLoad` are the delegate's, `OnManifest`
and `OnManifestForInstall` the answers, `Installs`, `WriteFails` and
`LinkFails` the outcomes of writing the launcher and the Deskbar entry.

**`BookmarkStore`** is the star and the list button at the grain of locks and
writes: `Star`, `AddBegins` (load if not loaded, take the store's lock),
`SaveLine` for each line of the file, `AddEnds`, `Refresh` of the list window
if there is one; `ShowBookmarks` and `ShowList`, which take the list window's
lock one after the other; `Search` and `Rebuild` on the list window's own
looper. Opening or writing the file may fail, and so may reading it.

**`HaikuClipboard`** has the owner of the system's clipboard, a count of its
changes and the notices Haiku has sent (`alerts`), and `is_owner_`. The code
keeps no count of its own: `seen`, the changes there were when
`clipboard_data_changed_cb_` ran last, is history, to say that it missed none.
An offer is one action; the looper's `ClipboardChanged` posts a task,
`OnClipboardChangedExternally` handles it.

**`HaikuBrowser`** composes the four. Its own part is what they share: a window
whose looper is at the star dispatches nothing else and makes the UI thread
wait, in a page load too, the UI thread does one task at a time and none inside
a destructor, a window that closes takes its toolbar, shell and list along, and
`Die` ends the process between any two steps; it may then start again with a
window that was not opened yet. What users, pages and Chromium start is bounded
by `Budgets`.

The operators under comments that begin "A slip" are mutated copies of a
definition, one plausible bug each; no specification uses them. Replacing the
definition by its slip makes the property that `PROJECT.json` pairs with it
fail, which shows that the property says something about the code.

## 3. What the runs check

Run any of them with `tlc -config X.cfg M`. State counts are distinct states.

| Run (`cfg`) | Question | Bounds | States |
| --- | --- | --- | --- |
| `ring` (`MtxChannel`) | does the unchecked ring behave as a queue, and for how many messages? | the real ring: 100 words, 8-word messages; windows of 11 and 16; 30 messages | 8,947 |
| `picture` (`MsvdxCmdbuf`) | does `end()` keep its promise through time-outs, refusals, failures and dropped pictures? | ring of 60 words (7 messages), batch of 6, 2 slices a picture, 5 pictures (3 for a careless caller) | 113,168 |
| `picture_any` (`MsvdxCmdbuf_any`) | does a flush return, and is the order kept, when batch and ring are both too small? | ring of 20 words (2 messages), batch of 3, 4 slices, 2 pictures | 151,338 |
| `picture_overrun` (`MsvdxCmdbuf_overrun`) | does `end()` keep its promise for a whole batch on the real ring? It does not (section 4) | the real sizes: 100 words, 8-word messages, batch of 16, 16 slices; 1 picture, the careful caller | violation |
| `picture_overfull` (`MsvdxCmdbuf_overfull`) | is everything sent when a picture has more slices than the batch? It is not (section 4) | batch of 2, 3 slices | violation |
| `encode` (`MCEncode`) | does the firmware find what the encoder wrote, for which pictures does it fit, and do references lead to the right pictures? | the real sizes; sixteen streams, 4 surfaces (interchangeable) | 35,768 |
| `owner` (`MsvdxOwner`) | who may touch the block, and does every claim end? | 2 teams, 2 decoders each | 17,488 |
| `owner_race` (`MsvdxOwner_race`) | does the port exclude? Not if two teams race (section 4) | 2 teams, 1 decoder each | violation |
| `surfaces` (`HaikuMsvdxDecoder`) | does every frame show its own pixels and timestamp, from its own surface? | 4 surfaces, DPBs of 1 and 2, 2 kept timestamps, reorder depth 2, 5 buffers | 2,544,021 |
| `memory` (`MsvdxMemory`) | is every buffer mapped where it is looked for, and none freed under the MTX? | 2 surfaces, 24 address blocks, 16 areas, 2 of them unmapped | 3,280,922 |
| `memory_timeout` (`MsvdxMemory_timeout`) | not even after a time-out? It is (section 4) | 18 areas, 1 of them unmapped | violation |
| `browser` (`MCBrowser`) | do the threads of a browser process agree in the end, and does nothing get lost, doubled or stuck? | 2 windows, 2 pages (one installable), 2 content heights, 2 places, frames in 2 bands, eleven budgets of input | 346,287 |

What each property says is at its definition. Those that carry the most:

- `IsQueue` (step refinement of `MessageQueue`): with fewer than 12 messages in
  flight the ring loses, repeats and reorders nothing, although `msvdx_send`
  hardly looks at the read index. `TakenInOrder`, `ExecutesInOrder`: an overrun
  loses messages but never repeats one or swaps two, whatever the window. Each
  message the read index passes was sent after the one before it, and each one
  executed likewise.
- `ImplementsApi`: `MsvdxCmdbuf` implements `PictureApi`. `end()` returns 0
  only when every slice of *this* picture was executed on *its own* commands
  and data. It holds for careless callers too while what they leave behind
  still fits the ring: a late reply to an earlier picture is never taken for
  this one's, because fences are compared, and because the MTX works in order.
- `OwnData`: the overwritten command and bitstream buffers are never read by
  the MTX for an earlier picture, if the caller stops at the first failure, as
  `decoder.cc` does.
- `FirmwareFollows`: from header to header the firmware meets exactly the
  commands written for a slice and stops at its `CMD_COMPLETION`, whether it
  loads the VLC tables or skips them, for every slice still in the batch,
  whatever was written since; and the message's record copies exactly them.
  `DataIsWhole`: the DMA lists still are what the commands say, to the last
  byte. `CommandsThenRecords`: the commands of the first eight slices since the
  buffer was started over fit, whatever they are and whichever pictures they
  are of; and so do the records of the first 38, if they are all of one
  picture. `FirmwareFollows` and `DataIsWhole` are claimed up to the overrun
  and up to the buffer's end: nine slices with the longest commands, or ten
  ordinary weighted B slices, write over the first LLDMA records, and three
  dropped pictures that each fill the bitstream buffer have more records than
  fit.
- `ReferencesResolve`: an entry of a slice's list reaches the address of the
  surface the decoder named through a place given to that surface possibly
  pictures ago. `MotionIsTheirs`: no picture's motion vectors are overwritten
  while a later one may read them.
- `OwnsUnlessRaced`, `OnlyClaimantsTouch`, `FlagsAgree`, `ClaimSettles`:
  the owner port excludes except for one race; an open that was refused leaves
  the other team's block alone though it runs `msvdx_close`; no early return
  keeps the claim.
- `SurfaceExclusive`, `OwnPixels`, `OwnStamp`, `NeverRunsOut`: counted
  surfaces, two more than the DPB needs, are enough and never shared; a frame
  shows its own picture even if the surface came back from a picture the MTX
  had not finished; trimming `timestamps_` never drops one that is still
  needed.
- `MmuPointsHome`, `BusyIsThereUnlessLeft`, `AreasAccounted`: through failures
  at every allocation, held buffers are where the decoder's page tables say,
  what the MTX may use exists unless a time-out or a dropped picture's message
  (section 4) stands behind it, no variable holds an area that is gone, and the
  only areas lost are VLC tables (which `psb_H264_DestroyContext` never
  destroys) and areas whose mapping failed.
- `BoundsSettle`, `OnlyAskedSizes`: when every report has been handled,
  `bounds_`, the manager's entry and the content view agree, in whatever order
  resizes by the user, by Chromium and by the toolbar met, and on the way
  nobody is told a size that was not asked for. The place is claimed only
  until the user moves the window: a move makes no report.
- `FrameNotStale`: the view's bitmap differs from viz's canvas only in what
  viz has yet to present. It is claimed if viz names its widget, or if the
  process never had a second window: `SoleWidget` drops presents of a null
  widget otherwise.
- `CloseSettles`: a close click closes the window, and its `Shell` once.
- `ButtonSettles`, `InstallsWhatIsShown`, `ListedWhole`: answers of pages left
  meanwhile never leave a wrong button, a click handled late never installs
  the previous site's app, and Deskbar is never given an entry whose launcher
  is torn.
- `KeptSurvive`: a bookmark saved to the end survives later additions, other
  windows' additions, crashes and relaunches, as long as no save was cut short
  and no read failed, and no page is twice in memory or in the file.
  `PressEnds`: the loopers of a browser window and its list, which take three
  locks, never wait for each other for ever.
- `ClipboardFollows`: with no news on its way, `is_owner_` implies that this
  process's offer is on the clipboard, and no change was missed.

Why the bounds are enough:

- *Ring.* `MtxChannel` uses the code's own numbers. Thirty messages wrap the
  ring twice, pad and refusal (`rd` still 0) included; 11 is the largest window
  with room (12 messages of 8 words fit, one place must stay empty), 16 the
  code's batch. `MsvdxCmdbuf` scales them: what matters is whether a whole
  batch and what may be left over from a time-out fit the ring (`picture`: 7
  messages fit, three careless pictures leave at most 6) or not
  (`picture_any`: 2 fit, the batch is 3), whether a picture has at most a batch
  of slices or more, and that the ring wraps several times (5 pictures of 2
  slices in a ring of 7). Three careless pictures are one dropped, one timed
  out, and one that must not be confused by either. For the careful caller the
  proofs cover every number.
- *Encoder.* Every length is the code's. `Longest` has the longest commands
  there are (eight take 3048 of the 3072 words), `Ten` an ordinary picture that
  overruns, `Brimful` one whose commands fill their part to the last word,
  `Shortest` two pictures of 18 slices, so that a batch is flushed in
  mid-picture, the message after it is written behind the first sixteen and the
  last ones are left to the second picture, `Behind` and `Dropped` pictures
  that fit alone and not behind dropped ones (commands in the first, records in
  the second), `Large` fills the bitstream buffer to the last byte, `Mixed` has
  every slice type and data of one record, one full one, a byte more, and two
  full ones, `Referring` reuses four surfaces over five pictures with
  references kept and dropped. Surfaces are only compared with each other and
  no operator chooses one, so states that differ by a permutation of them are
  one state here; every property of the run is an invariant.
- *Owner.* The race needs two teams; a third only repeats one's part. Two
  decoders per team are what `g_hardware_in_use` tells apart. The proofs cover
  every number of both.
- *Surfaces.* Count(2) = 4 reaches the cap of `Configure`, and DPB sizes 1 and
  2 make the pool both smaller and equal to it; five buffers fill the DPB, let
  pictures leave out of order, and allow two reconfigurations with pictures
  decoded under each. `KeptStamps` = `Reorder` is the tight case: the real 64
  is above any reorder depth H.264 allows (16). All four are proved without
  bounds.
- *Memory.* An open takes 2 areas, a configuration 5, a picture 2. Sixteen are
  an open and two configurations with a picture in each: enough for a second
  configuration to fail at every one of its buffers, and for a dropped
  picture's message to be sent with a picture of the next one. An area that
  could not be mapped ends the call it belongs to; two of them are one in each
  configuration. The proof covers every number of both. 24 address blocks are
  more than the areas, so `sNextDev` does not wrap: the run, and the theorem
  with its assumption `NoWrap`, show that an address is not reused *before* the
  wrap, not after.
- *Browser.* A budget bounds each kind of input; a run with every kind in large
  numbers is out of reach, so each budget is generous to the kinds that meet:
  resizes by both sides with an open, resizes with two close clicks, two
  windows, presents with a second window and with a resize, loads with
  installs, two whole loads in a row and the start of a third (seven steps of
  the page, so that a button may be left from a page that had settled), loads
  with bookmarks and a death, clipboard with a death, and one of everything.
  Heights 2 and 5 with a toolbar of 1 make every mixture of a height and an
  inset a size nobody asked for. A second window is all a process needs for
  `SoleWidget`, the shared store and the shared clipboard. Everything but
  liveness is proved without bounds.

`CHECK_DEADLOCK FALSE` stands where a bound stops the run (messages, pictures,
buffers, areas, streams, budgets); `MsvdxOwner` has no such bound and is
checked for deadlock.

## 4. Where the code and its comments disagree

Four runs show the program doing other than what the repository says of it.

1. **A batch overruns the ring, and `end()` says all is well**
   (`picture_overrun`, `EndMeansExecuted`). `msvdx_send`
   (`msvdx/msvdx.c:626`) looks at the read index only when it must wrap, and
   then only for 0. `psb_context_flush_cmdbuf` sends up to 16 messages of 8
   words before it waits; 12 fill the ring's 100 words. If the MTX has not
   moved, the wrap is refused and `end()` fails. If it has taken one message,
   the write index passes it: with 13 slices `rd = wr`, the ring looks empty
   and the flush times out; with 14 to 16 the MTX goes on with the newest
   messages, among them the last of the batch, answers it, and `end()` returns
   0 although the slices in between were never executed. `msvdx_decode.h:35`:
   "end() sends everything and waits for the hardware. 0 on success";
   `msvdx.h:39`: "Put one message ... on the host-to-MTX ring and kick the
   MTX." The run has the code's own sizes and the careful caller; whether it
   happens depends on how fast the MTX reads. A careless caller gets there with
   smaller pictures, since what timed out stays on the ring. That a picture of
   fewer than 12 slices is safe is proved (section 6).
2. **A slice is left behind** (`picture_overfull`, `EndSendsEverything`). When
   the batch is full, `psb_context_submit_cmdbuf`
   (`msvdx/psb/psb_cmdbuf_host.c:212`) flushes it; the flush clears
   `obj_context->cmdbuf`, and the new message goes first into the detached
   command buffer. If it was the picture's last slice, `end()` takes the early
   return at line 286 and returns 0 with that message unsent.
   `msvdx_decode.h:35`: "end() sends everything and waits for the hardware."
   A picture needs 17 slices for that.
3. **Two teams may own the block** (`owner_race`, `OneTeamAtATime`).
   `find_port` and `create_port` (`msvdx/msvdx.c:492`) are two calls, and
   Haiku's ports do not need distinct names. `msvdx.c:92`: "One team at a
   time. ... A named port is the lock".
4. **Memory is freed under a late picture** (`memory_timeout`, `BusyIsThere`).
   `end()` gives up after two seconds without stopping the MTX; a
   reconfiguration or `msvdx_decode_close` (`msvdx/msvdx_decode.c:62`, before
   `msvdx_close` stops the block) then deletes areas whose pages the decoder's
   page tables still name. `msvdx.c:332`: "Locked, so every page stays where
   the decoder's MMU points."

Four more observations are hazards and not findings.

- *Commands into records.* `psb_shim.h:212` describes the buffer as "`CMD_SIZE`
  of commands, then `LLDMA_SIZE`". Nothing in the code checks the commands; for
  the records `ASSERT` at `psb_cmdbuf.c:277` only prints, and is off by one.
  Nine slices with the longest commands, or ten weighted B slices, reach the
  records, which is why `CommandsThenRecords` says what it says of eight. The
  slices of a dropped picture, or those left by a flush in mid-picture, count:
  `psb_cmdbuf_host.c:186` does not start the buffer over while a message waits,
  so a picture of five may overrun behind one of five. It
  takes no command for that: `psb_context_submit_cmdbuf`
  (`msvdx/psb/psb_cmdbuf_host.c:214`) writes "a trailing 0" behind the commands
  and steps over it with none of them, so commands that end exactly where the
  records begin lose the first word of the first record. That is why `Overrun`
  asks for one word more than the commands take; the proof of `FirmwareFinds`
  did not go through without it, and the stream `Brimful` shows the case. The
  38th slice is the last whose records are sure to fit, five for a slice and
  64 for the whole bitstream buffer's data in 256.
- *A dropped picture's messages outlive its buffers.* `Reset` in mid-picture,
  or a full bitstream buffer, drops a picture whose messages wait in the
  command buffer. If a new size follows, `msvdx_decode_configure` releases the
  surfaces and buffers these messages point at, and leaves `cmd_count`; the
  next picture's `end()` sends them along. No time-out is needed: the MTX then
  works on areas that are gone. `left` marks these areas, and
  `BusyIsThereUnlessLeft` is claimed for all others; without it TLC finds the
  case in 21 steps.
- *Late pictures in the reference lists.* `decoder.cc:312` says "a surface is
  held only by the DPB and by the picture being decoded". If Chromium's
  `H264Decoder` also keeps pictures in its reference lists across a
  configuration change, `SurfacePool::Reset` refills the pool while such a
  picture still has its surface, which it gives back a second time when it
  goes, and two pictures can then share it. The model allows both; `held`
  records that it happened, and `SurfaceExclusive` and `OwnPixels` are claimed
  for behaviours in which it did not.
- *Our own change.* `haiku_clipboard.h` tells changes by others from our own.
  Haiku notifies a process of its own changes too, so `is_owner_` becomes false
  soon after each offer. That rests on Haiku's code; the model has it, and
  `ClipboardFollows` holds with it.

## 5. Fairness

Only what the host's scheduler gives is assumed where the property is about the
host:

- `MsvdxCmdbuf!FairSpec` = WF of `Flush`, the host thread inside
  `psb_context_flush_cmdbuf`. Nothing is assumed of the MTX: `FlushEnds` holds
  if it never answers, because `msvdx_receive` times out. The number of replies
  is finite since the number of messages is.
- `MsvdxOwner!FairSpec` = WF of each team's `Call`, its media thread inside
  `msvdx_open` or `msvdx_close`. No fairness for opening or closing: the
  player may keep a video open for ever, and `Die` is never required.
- `MtxChannel!FairSpec` = WF of the MTX's reads, the one place where progress
  of the firmware is assumed, because `SentIsTaken` is about the firmware
  getting what was sent. The sender is not assumed to be fair.
- `HaikuBrowser!Spec` = WF of the UI thread's tasks (`WindowTask`,
  `InstallTask`, `ClipboardTask`, one queue, one thread), WF of `QuitWindow`
  (the UI thread inside `~HaikuWindow`), and WF of each looper's steps at the
  star and the list (`ChromeStep`, `ListStep`). These are threads that run and
  never wait for input here. Nothing is assumed of users, pages, viz, Haiku's
  notices or the renderer's answers, and inputs are finitely many.

## 6. What is proved

TLAPS checks eight proof modules from nothing, with every constant arbitrary
(12,369 obligations). Each proves `THEOREM Spec => []...` from an inductive
invariant, one step per action.

**`MtxChannel_proof`** (596), for a ring and messages of any size:
`TypeCorrect` (`TypeOK`: both indices are at the beginning of a message or of
the pad), `NothingRepeated` (`TakenInOrder`: each message taken was sent after
the one taken before), `RingIsQueue`
(`IsQueue`), and `EmptyWhenRoomy`: with fewer messages in flight than slots,
`rd = wr` means empty. The argument is in slots: every lap of the host fills
each slot once, so a slot behind the write index holds a message of this lap
and one ahead of it one of the lap before, whatever the MTX has done; with room
the queue's messages are the slots from `rd` to `wr`, pad included.

**`MsvdxCmdbuf_proof`** (2,182), for any ring, message, batch and number of
pictures: `TypeCorrect` (`TypeOK`) for every kind of caller; and under
`Careful` (the caller ends every picture and stops at the first failure, as
`decoder.cc` does unless it is `Reset` in mid-picture) and `Fitting` (a picture
has at most a batch of slices and fewer than the ring has slots: at most 11 in
the code's numbers) `OwnDataAlways` (`OwnData`), `EndIsTrue`
(`EndMeansExecuted`) and `ApiImplemented`, the refinement of `PictureApi`
(`ImplementsApi`). None of these is inductive: `IInv` adds what is where in
each phase of a picture. A picture is begun only when the MTX has nothing to do
(`Quiet`), so what is on the ring is this picture's messages in order, the
first `t` taken, the rest between `rd` and `wr` (`InFlight`), with fences that
count up from the first; every message done with left a record, and every reply
is older than them. So a reply with the last fence can come only when all were
executed (`AllAnswered`). `Wrapped` is there because the pad makes two write
positions look the same distance ahead. `picture_overrun` shows that `Fitting`
is needed. `RunsInOrder` (`ExecutesInOrder`, an action property) needs neither:
for any caller, any batch and a ring that overruns, each message executed is
later than every one before it. `OrderInv` looks at the ring as laps: slots
below the write index hold this lap, the others the lap before, each in order
(`Laps`), and what is in front of the reader is later than all it took
(`Later`). An overrun makes the reader miss a lap, and never makes it see one
again.

**`MsvdxOwner_proof`** (333), under `OwnerAssumption` (`NoTeam` is no team),
for any sets of teams and decoders, finite or not: `TypeCorrect` (`TypeOK`),
`Exclusion` (`OwnsUnlessRaced`), `Agreement` (`FlagsAgree`), `OnlyClaimants`
(`OnlyClaimantsTouch`, an action property). `OwnsUnlessRaced` is not
inductive: a step of one team says nothing about another unless the place where
each is in its call determines its flags. `IInv` adds that for each team
(`Position`: for example a mapped block implies a port, and a team at `create`
is in `looked`), and that the flags of the two files move together (`Flags`).
Each step is checked for the team that moves (`StepOwn`) and for the others
(`StepOthers`), the shared part separately (`StepShared`, `StepExclusive`). The
point of the argument is `CreatePort`: with `Position`, a team at `create` has
looked, so a second port implies `raced`.

**`HaikuMsvdxDecoder_proof`** (1,077), under `DecoderAssumption`, for any pool
size, DPB sizes and number of buffers: `TypeCorrect` (`TypeOK`, which includes
that no surface is taken when none is there), `Exclusivity`
(`SurfaceExclusive`), `Pixels` (`OwnPixels`), and `Stamps` (`OwnStamp`) and
`NeverOut` (`NeverRunsOut`) each under a condition on the constants.
`OwnPixels` looks at frames after they were copied, so it needs what the
surfaces hold before: `IInv` adds that a surface in the DPB holds its own
picture and that no late picture is going to write it (`Contents`), that one
picture at a time is being decoded and is in no list yet (`Single`), and that
the pictures alive are finitely many, since the pool counts them. `GivenValue`
and `GiveBack` are the lemmas about the pool. The point of the argument is
`SubmitDecode`: the picture now in its surface shares it with no other, and
since the MTX works in order every late picture is done with.

`Stamps` assumes `StampsSuffice`, `Reorder <= KeptStamps`: the code keeps 64
timestamps, and H.264 lets at most 16 pictures wait. `StampInv` says that every
picture in the DPB was output or has its timestamp; trimming takes only what
`KeptStamps` newer ones follow (`TrimKeeps`), and Chromium's promise about
output says that nobody waits for those. `NeverOut` assumes `PoolSuffices`,
that `Configure`'s two extra surfaces do not meet its cap: H.264 allows DPBs of
16, and the cap is 24. Its `RoomInv` counts: of the surfaces configured, each
is free or used by a picture alive (`Used`), and the pictures alive are at most
one more than the DPB (`Fits`: the lists were taken from a DPB that lacked only
the picture stored last). With two surfaces more than the DPB one is left for
the next picture; with one more (the slip `CountShort`) it need not be.

**`MsvdxMemory_proof`** (1,751), for any number of surfaces and any failures:
`TypeCorrect` (`TypeOK`), `AllAccounted` (`AreasAccounted`), `BusyStays`
(`BusyIsThereUnlessLeft`), and, under `NoWrap` (more decoder addresses than
areas are ever created), `MapsHold` (`MmuPointsHome`). Between two calls and
between two allocations of one call it is known which buffers must be held and
mapped and which may be (`Phase`); every other variable holds nothing or an
area `mmu_map` could not map. So `msvdx_alloc` never overwrites the last number
of a good area, and no release meets an area twice. For `BusyStays` the
invariant says what the waiting messages point at (`pending`): areas that
exist, or that are in `left`; a flush makes them busy, and only a
reconfiguration takes areas away while they wait.

**`H264Stream_proof`** (3,856), for any finite set of surfaces, any batch size
and any streams. About the references: `Resolution` (`ReferencesResolve`) and
`MotionKept` (`MotionIsTheirs`). `IInv` adds that no two surfaces have the same
colocated buffer, that every reference's buffer holds its own motion, and that
while a picture is decoded its references know their places. The places a
surface keeps from earlier pictures may be wrong at any other time; only
`InPicture` makes them right. The lists a slice may have are those of `Lists`,
which the model enumerates.

About the commands, in the code's own sizes: `RoomForSlices`
(`CommandsThenRecords`), `FirmwareFinds` (`FirmwareFollows`), `ListsKept`
(`DataIsWhole`) and `TypeCorrect` (`TypeOK`), all from `Encodes`, the invariant
`EncInv`. The three properties walk over the buffer as it is when a slice is
sent; the invariant says what is in it, without a walk.

- `Buffer`: commands lie behind the command cursor, records behind theirs, and
  every length in a header is a number of words.
- A word *sits* (`Sits`) where nothing is written any more. `Grows` is what
  every operation of the encoder keeps: a buffer that grew has every word that
  sat before, provided the commands stay below the records (`Fits`). Each
  operation has a lemma of this form (`ChunkIs`, `RendecIs`, `LldmaIs`, ...),
  and `EncodedIs` composes them into a slice.
- `Laid` is a slice in the buffer: its nine commands at their distances, its
  chunks end to end (`ChunksAt`), its four lists of records (`ListAt`). `Sent`
  adds the record that copies it and its message; `Batched` says so of every
  message of the batch.
- `Cursors` bounds the growth: no slice takes more than 381 words, so the
  command cursor is within 381 times `written`, across pictures; and none takes
  more than five records and one for each full 65,535 bytes of its data, which
  the bitstream buffer bounds while all are of one picture (`written = count`).
  `RoomForSlices` follows by arithmetic, for any number of surfaces, any lists
  and any data.

What is left is the firmware's walk, over a buffer that is now known: `TrailIs`
says that steps which lead from each place of a sequence to the next find that
sequence, and `PathsAre` takes it through the nine commands, or seven when the
VLC tables are skipped. `ChunksFollowed` goes over the chunks from the last one
back, and `DataCovers` over the records of a list. A recursive function of the
model is a `CHOOSE` to the provers. That there is one, for the record chain
(`ChainIs`), the chunks (`ChunkStepsAre`) and the walk (`WalkIs`), is proved by
induction over a set of naturals (`FromZero`), which rests on the library's
theorem that `<` is well-founded on `Nat`.

**`HaikuWindow_proof`** (1,062) and **`HaikuBrowser_proof`** (1,512), for any
number of windows, sizes, places, pages and budgets: `Settled`
(`BoundsSettle`), `AskedSizes` (`OnlyAskedSizes`), `FramesFollow`
(`FrameNotStale`), `ButtonsFollow` (`ButtonSettles`), `OwnerFollows`
(`ClipboardFollows`), `InstallsShown` (`InstallsWhatIsShown`), `ListsWhole`
(`ListedWhole`), `BookmarksKept` (`KeptSurvive`) and `TypeCorrect` (`TypeOK`).
What settles is not inductive while something is on its way:
`SizeComes` and `PlaceComes` say that whatever is told *last*, a notice the
looper still has, a task in the UI thread's queue, or `bounds_` itself, is the
truth, and `Lives` says in which part of a window's life that is so.
`HaikuWindow_proof` has these as lemmas about the window's actions, and
`HaikuBrowser_proof` composes them with the invariants of the other parts.

A bookmark is in the file before a Save and in memory during it, and `StoreInv`
says which: outside Save whatever was kept is in the file, and in the list too
once it is loaded (`RestInv`); during Save the file has exactly the lines
written so far and the list has everything (`SaveInv`), unless a write or a
read failed. That the list is the only copy meanwhile is safe because only the
looper that holds the lock is in Save (`LockInv`), whatever the others do and
whenever the process dies. `Added` removes at most one line and it is the one
it appends, since no line is there twice.

Model-checked only: `SentIsTaken`, `FlushEnds`, `ClaimSettles`, `CloseSettles`
and `PressEnds`, which are liveness under fairness, and the prover does not do
that. Every other property of the passing runs is the statement of a theorem.
The four properties of section 4 that the code violates have none, of course.

## 7. Assumptions about what is not in the repository

- **The MTX firmware** takes messages from the ring in order, advances the read
  index before it executes, executes one at a time, answers the last message
  of a batch that succeeds and any that fails, reads memory as it is when it
  executes, and may be arbitrarily slow; it goes through a slice's commands
  from header to header. This is how `msvdx.c`, `wait_for_fence` and the
  encoder use it; the definitions that model it are marked external. That it
  works in order is what lets a successful `end()` clear `late`.
- **Haiku's kernel**: a team's ports are deleted when it dies, its device
  mappings go with it, several ports may have one name, a locked area's pages
  stay put until it is deleted.
- **Haiku's app_server and registrar**: a window's looper hears of new sizes in
  order, of moves not at all; every watcher of the clipboard hears of every
  change, its own process's included.
- **Chromium's `H264Decoder`**: it has at most the DPB size the stream asked
  for, outputs everything before a configuration change, stores a picture once
  there is room, refers only to pictures in the DPB, outputs a picture before
  `Reorder` more are decoded, and calls the accelerator from one thread. A
  picture's references are at most what the stream's parameters say and the
  picture itself is none of them; P and B slices have a reference.
- **Chromium's task queue and `ManifestManagerHost`**: posted tasks run in
  order on the UI thread; a page answers manifest requests in order, and one
  that is left answers what is open with an empty manifest.

## 8. What is not modelled, and why

The map covers about a tenth of the lines of the whole repository. Of the files
the modules are about it covers a little less than half. The rest of the
repository is the two earlier ports (`chromium108_port`, `chromium87_overlay`:
older copies of the same files), register headers of the video block
(`msvdx/hwdefs`, constants and bit fields), and wrappers and patches without
state; a model of a constant table or of a copy would show nothing new.

In the decoder:

- *Register values.* The encoder's words between a header and the next, the
  page tables and the cache flushes: a buffer is one block with one entry.
- *The two-pass path* of `EndPicture`, which always fails in this build.
- *`sFence` and `next_bitstream_id_` wrapping*: unbounded naturals here,
  bounded by the number of messages or buffers. The wrap of the bitstream id is
  at 2^30 buffers, after which the trim takes the newest timestamps for the
  oldest.
- *A command buffer that cannot be allocated* (`psb_H264.c:1559`): the code
  goes on with a null pointer, and the process ends.
- *A device that cannot be mapped* (`msvdx.c:503`): a file descriptor stays
  open for the life of the process; no state depends on it.
- *The invalidate bit* (`psb_cmdbuf_host.c:296`): `msvdx_mmu_ptd` clears it
  when read, before a message that carries it may be refused. A caller that
  stops at the first failure, as `decoder.cc` does, sends none that needs it.
- *`long_term_frame_flags`* (`psb_H264.c:714`) is set from the bottom-field
  flag, which no progressive picture has, so no reference is ever marked
  long-term; what the hardware makes of that register is not known here.
- *A slice without parameters* (`psb_H264.c:1644`) would leave an index behind;
  `decoder.cc` always gives them first.
- *Late writes* are in `HaikuMsvdxDecoder` and `MsvdxMemory`, not in
  `H264References`.

In the browser process:

- *Titles, cursor, focus, input events, fullscreen, navigation state, reload
  and stop, the icon's download*: they set what is shown and nothing reads it
  back.
- *The address and the title* reach the toolbar in two calls, each under the
  window's lock; a star between them (`views.cc:1105`) pairs one with the
  other's page.
- *A second process with a toolbar*, which would share the bookmarks' file
  without a lock: a hazard. Installed apps run with `RCH_NO_TOOLBAR`.
- *Two sites whose apps have one name* (`shell.cc:810`) write one launcher; a
  reinstall that fails leaves an app listed without a whole launcher. In the
  model a page has a launcher of its own.
- *`PresentCanvas` against teardown* (`haiku_surface_factory.cc:59`): lookup
  and present are one step here. Whether the view may go between them is a
  hazard without a property.
- *The list window outlives its browser window* (`views.cc:1228`) and then has
  nobody to open pages; it is left behind on purpose, and a process's
  `BookmarkStore` lives as long as the process.
- *What is on the clipboard*: changes are counted; `Commit` is assumed to
  succeed, as the code does.
- *`haiku_application.cc`*: a flag and a condition variable at start-up, and a
  destructor that runs when the process ends. Its hazard (line 22: the
  destructor posts to a `BApplication` that may have ended by itself) needs
  Haiku's code.

*Platform wrappers, patches, kernel patches, scripts, the probe*: no state of
their own, or no code of the running browser.

## 9. Plan

Done: the ring, the command buffer, ownership, the surface pool and the memory
of the decoder; its encoder and reference frames; the browser process with its
windows, install button, bookmarks and clipboard; proofs of every safety
property of them that a run checks.

Left, in order of what it would add:

1. *Lookup and present as two steps* in `HaikuWindow`, with the view's
   lifetime, for the hazard at `haiku_surface_factory.cc:59`.
2. *A second process* over the bookmarks' file, for the hazard at
   `views.cc:808`.
3. *`MsvdxMemory` after the wrap of `sNextDev`*: which addresses may be given
   out twice, and whether `mmu_map` notices.

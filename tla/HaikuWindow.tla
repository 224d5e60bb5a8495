---------------------------- MODULE HaikuWindow ----------------------------
(***************************************************************************)
(* The browser's windows in ozone: HaikuWindow on Chromium's UI thread,    *)
(* the BWindow and HaikuContentView behind it on a looper thread each, the *)
(* window manager both consult, and the canvas through which viz presents  *)
(* frames (haiku_window.cc, haiku_window_manager.cc,                       *)
(* haiku_surface_factory.cc, haiku_beapi_views.cc).                        *)
(*                                                                         *)
(* The looper tells the UI thread what happened by posting tasks, which    *)
(* run in order; the UI thread acts on the BWindow directly, under its     *)
(* lock.  A size is a height and a place a number: the width and the other *)
(* coordinate are treated alike.  The title, the cursor, focus and input   *)
(* events are left out.                                                    *)
(***************************************************************************)
EXTENDS Integers, Sequences

CONSTANTS
    Windows,     \* the windows a process may open, their widget numbers
    Heights,     \* the content heights Chromium or the user asks for
    Places,      \* where windows are put
    Inset,       \* kChromeHeight, the toolbar's height
    Bands        \* the parts of a frame that are painted separately

ASSUME WindowAssumption ==
    /\ Heights \in SUBSET (Nat \ {0})
    /\ Places \in SUBSET Nat
    /\ 0 \in Places
    /\ Inset \in Nat

VARIABLES
    life,     \* "none", "open", "quitting" inside ~HaikuWindow, "gone"
    native,   \* the BWindow and its content view: [at, height, inset, view,
              \* notices], notices the B_VIEW_RESIZED its looper has queued
    bounds,   \* bounds_: [at, height]
    known,    \* the manager's entry: {} or {[at, height]}
    tasks,    \* the tasks the loopers and the UI posted to the UI thread
    moved,    \* history: the BWindow moved and no bounds tell it yet
    given,    \* viz gives a canvas its widget, and not a null one
    toolbar,  \* the process has toolbars: RCH_NO_TOOLBAR is not set
    canvas,   \* HaikuCanvas: [height, dirty], dirty painted, not presented
    frame     \* the view's frame_ bitmap: [height, stale], stale unlike canvas

windowVars ==
    <<life, native, bounds, known, tasks, moved, given, toolbar, canvas,
      frame>>

Env == <<given, toolbar>>

Rect(p, h) == [at |-> p, height |-> h]

NoNative == [at |-> 0, height |-> 0, inset |-> 0, view |-> 0,
             notices |-> << >>]
NoRect == Rect(0, 0)
NoCanvas == [height |-> 0, dirty |-> {}]
NoFrame == [height |-> 0, stale |-> {}]

NoWindow == "none"     \* of a task about no window

BoundsTask(w, r) == [kind |-> "bounds", win |-> w, rect |-> r]
Task(kind, w) == [kind |-> kind, win |-> w, rect |-> NoRect]

WindowInit ==
    /\ life = [w \in Windows |-> "none"]
    /\ native = [w \in Windows |-> NoNative]
    /\ bounds = [w \in Windows |-> NoRect]
    /\ known = [w \in Windows |-> {}]
    /\ tasks = << >>
    /\ moved = [w \in Windows |-> FALSE]
    /\ given \in BOOLEAN
    /\ toolbar \in BOOLEAN
    /\ canvas = [w \in Windows |-> NoCanvas]
    /\ frame = [w \in Windows |-> NoFrame]

(* ~HaikuWindow waits for the looper, and the UI thread with it.           *)
UiFree == \A w \in Windows : life[w] # "quitting"

LooperRuns(w) == life[w] \in {"open", "quitting"}

-----------------------------------------------------------------------------
(* ResizeTo: the view keeps its distance to every edge                     *)
(* (B_FOLLOW_ALL_SIDES), and the looper is sent a notice with the view's   *)
(* new size if that changed.                                               *)
Resized(n, h) ==
    LET v == n.view + h - n.height
    IN  [n EXCEPT !.height = h,
                  !.view = v,
                  !.notices = IF v = n.view THEN @ ELSE Append(@, v)]

(* The frame that leaves the content this height.                          *)
FrameForContent(n, h) == h + n.inset

(* AddChild of the view, which has no size before: AttachedToWindow fills  *)
(* the window.                                                             *)
Attached(p, h) ==
    [at |-> p, height |-> h, inset |-> 0, view |-> h, notices |-> << h >>]

(* SetTopInset as it was first written: the view follows the window, and   *)
(* is then shrunk back.                                                    *)
SetTopInsetUnpinned(n, h, i) ==
    LET r == Resized(n, h + i)
    IN  [r EXCEPT !.inset = i,
                  !.view = h,
                  !.notices = IF i = 0 THEN @ ELSE Append(@, h)]

(* SetTopInset, the content being h high by bounds_: the view is pinned    *)
(* while the window grows around it, so its own ResizeTo changes nothing.  *)
SetTopInset(n, h, i) ==
    [n EXCEPT !.height = h + i, !.inset = i]

(* CreatePlatformWindow: the host makes a HaikuWindow (the first at a      *)
(* default size) at the screen's origin, Chromium sizes it, the toolbar is *)
(* attached and Show puts it where MoveOnScreen and the cascade will.  The *)
(* looper first runs at Show, so none of its messages comes between.       *)
Open(w) ==
    /\ UiFree
    /\ life[w] = "none"
    /\ \E q \in Places, h, k \in Heights :
          /\ (\E v \in Windows : life[v] # "none") => h = k
          /\ LET sized == Resized(Attached(0, h), k)
                 i == IF toolbar THEN Inset ELSE 0
             IN  native' = [native EXCEPT ![w] =
                               [SetTopInset(sized, k, i) EXCEPT !.at = q]]
          /\ bounds' = [bounds EXCEPT ![w] = Rect(0, k)]
          /\ known' = [known EXCEPT ![w] = {Rect(0, k)}]
    /\ life' = [life EXCEPT ![w] = "open"]
    /\ moved' = [moved EXCEPT ![w] = TRUE]
    /\ UNCHANGED <<tasks, Env, canvas, frame>>

Told(w) ==
    /\ native[w].notices = << >>
    /\ \A i \in 1 .. Len(tasks) :
          ~(tasks[i].kind = "bounds" /\ tasks[i].win = w)

(* SetBoundsInPixels, on the UI thread.                                    *)
SetBoundsInPixels(w) ==
    /\ UiFree
    /\ life[w] = "open"
    /\ \E p \in Places, h \in Heights :
          /\ bounds' = [bounds EXCEPT ![w] = Rect(p, h)]
          /\ known' = [known EXCEPT ![w] = {Rect(p, h)}]
          /\ native' = [native EXCEPT ![w] =
                           [Resized(@, FrameForContent(@, h))
                               EXCEPT !.at = p]]
    /\ moved' = [moved EXCEPT ![w] = ~Told(w)]
    /\ UNCHANGED <<life, tasks, Env, canvas, frame>>

-----------------------------------------------------------------------------
(* The user drags the window's border, or its tab.                         *)
UserResizes(w) ==
    /\ LooperRuns(w)
    /\ \E p \in Places, h \in Heights :
          native' = [native EXCEPT ![w] =
                        [Resized(@, h + @.inset) EXCEPT !.at = p]]
    /\ moved' = [moved EXCEPT ![w] = TRUE]
    /\ UNCHANGED <<life, bounds, known, tasks, Env, canvas, frame>>

UserMoves(w) ==
    /\ LooperRuns(w)
    /\ \E p \in Places \ {native[w].at} :
          native' = [native EXCEPT ![w].at = p]
    /\ moved' = [moved EXCEPT ![w] = TRUE]
    /\ UNCHANGED <<life, bounds, known, tasks, Env, canvas, frame>>

(* A slip of FrameResized: nothing is posted while another report of this  *)
(* window is on its way.                                                   *)
FrameResizedOnce(w) ==
    /\ LooperRuns(w)
    /\ native[w].notices # << >>
    /\ LET r == Rect(native[w].at, Head(native[w].notices))
       IN  tasks' = IF \E i \in 1 .. Len(tasks) :
                          tasks[i].kind = "bounds" /\ tasks[i].win = w
                    THEN tasks
                    ELSE Append(tasks, BoundsTask(w, r))
    /\ native' = [native EXCEPT ![w].notices = Tail(@)]
    /\ moved' = [moved EXCEPT ![w] = FALSE]
    /\ UNCHANGED <<life, bounds, known, Env, canvas, frame>>

(* HaikuContentView::FrameResized: the size is the notice's, the place is  *)
(* where the window is by now.                                             *)
FrameResized(w) ==
    /\ LooperRuns(w)
    /\ native[w].notices # << >>
    /\ LET r == Rect(native[w].at, Head(native[w].notices))
       IN  tasks' = Append(tasks, BoundsTask(w, r))
    /\ native' = [native EXCEPT ![w].notices = Tail(@)]
    /\ moved' = [moved EXCEPT ![w] = FALSE]
    /\ UNCHANGED <<life, bounds, known, Env, canvas, frame>>

(* BrowserNativeWindow::QuitRequested: the content view asks the UI.       *)
QuitRequested(w) ==
    /\ LooperRuns(w)
    /\ tasks' = Append(tasks, Task("close", w))
    /\ UNCHANGED <<life, native, bounds, known, moved, Env, canvas, frame>>

-----------------------------------------------------------------------------
NextTask(kind) == UiFree /\ tasks # << >> /\ Head(tasks).kind = kind

(* A slip: the manager is not told.                                        *)
OnBoundsUnshared ==
    /\ NextTask("bounds")
    /\ LET t == Head(tasks)
       IN  bounds' = IF life[t.win] = "open"
                     THEN [bounds EXCEPT ![t.win] = t.rect]
                     ELSE bounds
    /\ tasks' = Tail(tasks)
    /\ UNCHANGED <<life, native, known, moved, Env, canvas, frame>>

(* OnBoundsFromLooper; a window that is gone has taken its weak pointer    *)
(* with it and the task does nothing.                                      *)
OnBoundsFromLooper ==
    /\ NextTask("bounds")
    /\ LET t == Head(tasks)
       IN  IF life[t.win] = "open"
           THEN /\ bounds' = [bounds EXCEPT ![t.win] = t.rect]
                /\ known' = [known EXCEPT ![t.win] = {t.rect}]
           ELSE UNCHANGED <<bounds, known>>
    /\ tasks' = Tail(tasks)
    /\ UNCHANGED <<life, native, moved, Env, canvas, frame>>

(* As it was before the close observer: nobody closes the Shell.           *)
OnCloseUnheard ==
    /\ NextTask("close")
    /\ tasks' = Tail(tasks)
    /\ UNCHANGED <<life, native, bounds, known, moved, Env, canvas, frame>>

(* OnCloseFromLooper: OnHostCloseRequested posts CloseShell, because the   *)
(* host whose observers are being called goes with the Shell.              *)
OnCloseFromLooper ==
    /\ NextTask("close")
    /\ LET w == Head(tasks).win
       IN  tasks' = IF life[w] = "open"
                    THEN Append(Tail(tasks), Task("closeShell", w))
                    ELSE Tail(tasks)
    /\ UNCHANGED <<life, native, bounds, known, moved, Env, canvas, frame>>

(* A slip: the Shell is closed without a look at Shell::windows().         *)
CloseShellAlways ==
    /\ NextTask("closeShell")
    /\ LET w == Head(tasks).win
       IN  /\ life' = [life EXCEPT ![w] = "quitting"]
           /\ known' = [known EXCEPT ![w] = {}]
    /\ tasks' = Tail(tasks)
    /\ UNCHANGED <<native, bounds, moved, Env, canvas, frame>>

(* CloseShell, and through ~Shell and CleanUp the first half of            *)
(* ~HaikuWindow: the manager forgets the window and the BWindow is told to *)
(* quit.  A second click finds the Shell gone.                             *)
CloseShell ==
    /\ NextTask("closeShell")
    /\ LET w == Head(tasks).win
       IN  IF life[w] = "open"
           THEN /\ life' = [life EXCEPT ![w] = "quitting"]
                /\ known' = [known EXCEPT ![w] = {}]
           ELSE UNCHANGED <<life, known>>
    /\ tasks' = Tail(tasks)
    /\ UNCHANGED <<native, bounds, moved, Env, canvas, frame>>

(* BWindow::Quit returns: the looper and the view are gone.                *)
Quit(w) ==
    /\ life[w] = "quitting"
    /\ life' = [life EXCEPT ![w] = "gone"]
    /\ native' = [native EXCEPT ![w] = NoNative]
    /\ bounds' = [bounds EXCEPT ![w] = NoRect]
    /\ moved' = [moved EXCEPT ![w] = FALSE]
    /\ canvas' = [canvas EXCEPT ![w] = NoCanvas]
    /\ frame' = [frame EXCEPT ![w] = NoFrame]
    /\ UNCHANGED <<known, tasks, Env>>

-----------------------------------------------------------------------------
(* The bitmap of w differs from its canvas in these bands too.             *)
Stale(w, B) ==
    [frame EXCEPT ![w].stale = IF frame[w].height = 0 THEN {} ELSE @ \cup B]

Registered == {w \in Windows : known[w] # {}}

(* ResolvedWidget, with SoleWidget: the window a canvas presents into.     *)
ResolvedWidget(w) ==
    IF given THEN {w} \cap Registered
             ELSE {v \in Registered : Registered = {v}}

(* ResizeCanvas, after the delegate was told the bounds: a new surface, to *)
(* be painted whole.                                                       *)
ResizeCanvas(w) ==
    /\ LooperRuns(w)
    /\ canvas[w].height # bounds[w].height
    /\ canvas' = [canvas EXCEPT ![w] =
                     [height |-> bounds[w].height, dirty |-> Bands]]
    /\ frame' = Stale(w, Bands)
    /\ UNCHANGED <<life, native, bounds, known, tasks, moved, Env>>

(* viz paints a part of the surface.                                       *)
Paint(w) ==
    /\ LooperRuns(w)
    /\ canvas[w].height # 0
    /\ \E b \in Bands :
          /\ canvas' = [canvas EXCEPT ![w].dirty = @ \cup {b}]
          /\ frame' = Stale(w, {b})
    /\ UNCHANGED <<life, native, bounds, known, tasks, moved, Env>>

(* A slip: a new bitmap is filled with the damage and no more.             *)
CopiedDamage(w, new) == IF canvas[w].dirty = {} THEN Bands
                        ELSE canvas[w].dirty

(* What Present copies: the damage, or everything when there is none or    *)
(* when the bitmap is new.                                                 *)
Copied(w, new) ==
    IF new \/ canvas[w].dirty = {} THEN Bands ELSE canvas[w].dirty

(* PresentCanvas with HaikuContentView::Present, the damage being what was *)
(* painted since the last one: nothing is shown when no view is found, or  *)
(* when the bitmap cannot be made.                                         *)
PresentCanvas(w) ==
    /\ LooperRuns(w)
    /\ canvas[w].height # 0
    /\ IF ResolvedWidget(w) = {}
       THEN frame' = frame
       ELSE \E v \in ResolvedWidget(w) :
              LET new == frame[v].height # canvas[w].height
              IN  \/ frame' = [frame EXCEPT ![v] =
                        [height |-> canvas[w].height,
                         stale |-> IF v # w THEN Bands
                                   ELSE (IF new THEN Bands ELSE @.stale)
                                            \ Copied(w, new)]]
                  \/ /\ new
                     /\ frame' = [frame EXCEPT ![v] = NoFrame]
    /\ canvas' = [canvas EXCEPT ![w].dirty = {}]
    /\ UNCHANGED <<life, native, bounds, known, tasks, moved, Env>>

-----------------------------------------------------------------------------
Rects == [at : Int, height : Int]
WindowTasks == {"bounds", "close", "closeShell", "install"}

Tasks == [kind : WindowTasks, win : Windows, rect : Rects]
         \cup [kind : {"clipboard"}, win : {NoWindow}, rect : {NoRect}]

WindowTypeOK ==
    /\ life \in [Windows -> {"none", "open", "quitting", "gone"}]
    /\ native \in [Windows -> [at : Int, height : Int, inset : {0, Inset},
                               view : Int, notices : Seq(Int)]]
    /\ bounds \in [Windows -> Rects]
    /\ known \in [Windows -> SUBSET Rects]
    /\ tasks \in Seq(Tasks)
    /\ moved \in [Windows -> BOOLEAN]
    /\ given \in BOOLEAN
    /\ toolbar \in BOOLEAN
    /\ canvas \in [Windows -> [height : Int, dirty : SUBSET Bands]]
    /\ frame \in [Windows -> [height : Int, stale : SUBSET Bands]]

(* Once every report has been handled, bounds_ and the manager's entry     *)
(* have the size the content view really has, in whatever order the user's *)
(* resizes and SetBoundsInPixels met; and hit tests find the window where  *)
(* it is, unless it was moved and no resize has been reported since, for   *)
(* the content view hears of sizes only.                                   *)
BoundsSettle ==
    \A w \in Windows : life[w] = "open" /\ Told(w) =>
        /\ bounds[w].height = native[w].view
        /\ \A r \in known[w] :
               /\ r.height = native[w].view
               /\ ~moved[w] => r.at = native[w].at

(* Chromium is never told a content size nobody asked for, attaching the   *)
(* toolbar included (SetTopInset: aura "saw 800x600, then 800x630, then    *)
(* 800x600 again" and the page stayed blank).                              *)
OnlyAskedSizes ==
    \A w \in Windows : life[w] = "open" => bounds[w].height \in Heights

Lone == \A v, w \in Windows : life[v] # "none" /\ life[w] # "none" => v = w

(* What the view draws differs from viz's canvas only where viz has yet to *)
(* present, through failed bitmaps and new sizes; without widgets that     *)
(* takes a process that never had a second window (SoleWidget).            *)
FrameNotStale ==
    given \/ Lone =>
        \A w \in Windows :
            life[w] = "open" /\ frame[w].height # 0 =>
                frame[w].stale \subseteq canvas[w].dirty

CloseAsked(w) ==
    \E i \in 1 .. Len(tasks) : tasks[i].kind = "close" /\ tasks[i].win = w

(* A click on the close button closes the window, and its Shell once: from *)
(* the time it is quit it never opens or quits again, however many more    *)
(* clicks are still on their way.                                          *)
CloseSettles ==
    /\ [][\A w \in Windows :
              /\ life[w] = "quitting" => life'[w] \in {"quitting", "gone"}
              /\ life[w] = "gone" => life'[w] = "gone"]_life
    /\ \A w \in Windows : CloseAsked(w) ~> life[w] = "gone"

=============================================================================

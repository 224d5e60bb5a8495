---------------------------- MODULE HaikuBrowser ----------------------------
(***************************************************************************)
(* A browser process: its windows (HaikuWindow), their shells and toolbars *)
(* (BrowserShell), its bookmarks (BookmarkStore) and its clipboard         *)
(* (HaikuClipboard), which meet where they share a thread or a lock.  The  *)
(* star and the list button run on the looper of the browser window, with  *)
(* that window locked: until they are done the window dispatches nothing   *)
(* else, and the UI thread waits when it needs the window.  The process    *)
(* may die, and be started again for a window not opened yet.              *)
(*                                                                         *)
(* What the user, a page or Chromium starts is bounded by a budget for     *)
(* each kind of input; a run considers several, each generous to one kind. *)
(***************************************************************************)
EXTENDS BrowserShell, BookmarkStore, HaikuClipboard

CONSTANTS
    Budgets,     \* bounds: the budgets to consider
    PlainHeight  \* bound: the size of windows when sizes are not the point

ASSUME BrowserAssumption ==
    /\ Toolbars = Windows
    /\ Urls = Pages
    /\ Budgets \in SUBSET [{"sizes", "open", "window", "close", "viz",
                            "page", "install", "store", "clip", "die"} -> Nat]
    /\ PlainHeight \in Heights

VARIABLE budget

vars == <<windowVars, shellVars, storeVars, clipVars, budget>>

Init ==
    /\ WindowInit
    /\ ShellInit
    /\ StoreInit
    /\ ClipboardInit
    /\ budget \in Budgets
    /\ budget["viz"] = 0 => given
    /\ budget["sizes"] = 0 => toolbar

Spend(kind) ==
    /\ budget[kind] > 0
    /\ budget' = [budget EXCEPT ![kind] = @ - 1]

(* The looper of w is in its message loop, and w is not locked by it.      *)
LooperFree(w) == at[Chrome(w)] = "idle"

-----------------------------------------------------------------------------
(* Unless sizes are the point windows are opened at one size and place.    *)
OpenWindow ==
    /\ Spend("open")
    /\ \E w \in Windows :
          /\ Open(w)
          /\ budget["sizes"] = 0 =>
                /\ native'[w].at = 0
                /\ native'[w].view = PlainHeight
                /\ Len(native'[w].notices) = 1
    /\ UNCHANGED <<shellVars, storeVars, clipVars>>

UserInput ==
    /\ Spend("window")
    /\ \E w \in Windows :
          LooperFree(w) /\ (UserResizes(w) \/ UserMoves(w))
    /\ UNCHANGED <<shellVars, storeVars, clipVars>>

SetBounds ==
    /\ Spend("window")
    /\ \E w \in Windows : LooperFree(w) /\ SetBoundsInPixels(w)
    /\ UNCHANGED <<shellVars, storeVars, clipVars>>

Report ==
    /\ \E w \in Windows : LooperFree(w) /\ FrameResized(w)
    /\ UNCHANGED <<shellVars, storeVars, clipVars, budget>>

CloseClick ==
    /\ Spend("close")
    /\ \E w \in Windows : LooperFree(w) /\ QuitRequested(w)
    /\ UNCHANGED <<shellVars, storeVars, clipVars>>

WindowTask ==
    /\ OnBoundsFromLooper \/ OnCloseFromLooper \/ CloseShell
    /\ UNCHANGED <<shellVars, storeVars, clipVars, budget>>

(* BWindow::Quit waits for the looper to finish what it is doing.          *)
QuitWindow ==
    /\ \E w \in Windows :
          /\ LooperFree(w)
          /\ Quit(w)
          /\ ShellGone({w})
    /\ UNCHANGED <<storeVars, clipVars, budget>>

Viz ==
    /\ Spend("viz")
    /\ \E w \in Windows : ResizeCanvas(w) \/ Paint(w) \/ PresentCanvas(w)
    /\ UNCHANGED <<shellVars, storeVars, clipVars>>

-----------------------------------------------------------------------------
(* The UI thread locks the window to change what its toolbar shows.        *)
Load ==
    /\ Spend("page")
    /\ \E w \in Windows :
          LooperFree(w) /\ (StartLoad(w) \/ Commit(w) \/ EndLoad(w))
    /\ UNCHANGED <<storeVars, clipVars>>

Manifest ==
    /\ \E w \in Windows :
          \/ LooperFree(w) /\ OnManifest(w)
          \/ OnManifestForInstall(w)
    /\ UNCHANGED <<storeVars, clipVars, budget>>

InstallClick ==
    /\ Spend("install")
    /\ \E w \in Windows : LooperFree(w) /\ OnInstall(w)
    /\ UNCHANGED <<storeVars, clipVars>>

InstallTask ==
    /\ RunInstall
    /\ UNCHANGED <<storeVars, clipVars, budget>>

-----------------------------------------------------------------------------
(* The toolbar's buttons work while the window's looper runs; a            *)
(* BookmarksWindow outlives the browser window it belongs to.              *)
StoreClick ==
    /\ Spend("store")
    /\ \E w \in Windows :
          \/ /\ LooperRuns(w)
             /\ toolbar
             /\ \/ address[w] # NoPage /\ Star(w, address[w])
                \/ ShowBookmarks(w)
          \/ Search(w)
    /\ UNCHANGED <<windowVars, shellVars, clipVars>>

ChromeStep(w) ==
    /\ \/ AddBegins(w) \/ SaveFailsToOpen(w)
       \/ SaveLine(w) \/ SaveLineFails(w) \/ AddEnds(w)
       \/ Refresh(w) \/ Rebuild(w, Chrome(w)) \/ ShowList(w)
    /\ UNCHANGED <<windowVars, shellVars, clipVars, budget>>

ListStep(w) ==
    /\ Rebuild(w, List(w))
    /\ UNCHANGED <<windowVars, shellVars, clipVars, budget>>

(* Copying, here and in other applications; pasting changes nothing.       *)
Copy ==
    /\ Spend("clip")
    /\ OfferClipboardData \/ OthersUpload
    /\ UNCHANGED <<shellVars, storeVars>>

(* The watcher is a looper of its own, with no window.                     *)
Watch ==
    /\ ClipboardChanged
    /\ UNCHANGED <<shellVars, storeVars, budget>>

ClipboardTask ==
    /\ OnClipboardChangedExternally
    /\ UNCHANGED <<shellVars, storeVars, budget>>

(* The process dies with its windows; its files stay.                      *)
Die ==
    /\ Spend("die")
    /\ StoreDies
    /\ ClipboardDies
    /\ ShellGone(Windows)
    /\ life' = [w \in Windows |-> IF life[w] = "none" THEN "none" ELSE "gone"]
    /\ native' = [w \in Windows |-> NoNative]
    /\ bounds' = [w \in Windows |-> NoRect]
    /\ known' = [w \in Windows |-> {}]
    /\ tasks' = << >>
    /\ moved' = [w \in Windows |-> FALSE]
    /\ canvas' = [w \in Windows |-> NoCanvas]
    /\ frame' = [w \in Windows |-> NoFrame]
    /\ UNCHANGED Env

Ui == WindowTask \/ InstallTask \/ ClipboardTask \/ Manifest

Next ==
    \/ OpenWindow \/ UserInput \/ SetBounds \/ Report \/ CloseClick
    \/ QuitWindow \/ Viz \/ Load \/ InstallClick \/ StoreClick
    \/ Copy \/ Watch \/ Die
    \/ Ui
    \/ \E w \in Windows : ChromeStep(w) \/ ListStep(w)

(* The threads run: the UI thread its tasks, and the loopers what they     *)
(* have begun.  Nothing is assumed of the user, the pages or viz.          *)
Spec ==
    /\ Init
    /\ [][Next]_vars
    /\ WF_vars(WindowTask \/ InstallTask \/ ClipboardTask)
    /\ WF_vars(QuitWindow)
    /\ \A w \in Windows : WF_vars(ChromeStep(w)) /\ WF_vars(ListStep(w))

(* Every part of the process is as its C++ types allow.                    *)
TypeOK ==
    WindowTypeOK /\ ShellTypeOK /\ StoreTypeOK /\ ClipboardTypeOK

=============================================================================

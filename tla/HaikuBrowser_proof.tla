------------------------- MODULE HaikuBrowser_proof -------------------------
(***************************************************************************)
(* Theorems about HaikuBrowser, for any number of windows, any sizes,      *)
(* places, pages and budgets: sizes and places settle, frames follow their *)
(* canvases, the install button and the clipboard's owner follow what they *)
(* stand for, no launcher is written for a page that is not shown, a       *)
(* bookmark once saved stays, and every variable keeps its type.           *)
(***************************************************************************)
EXTENDS HaikuBrowser, HaikuWindow_proof, SequenceTheorems

(* A window that is not opened yet shows no page and offers no app, and    *)
(* the button is what it should be when nobody is about to change it.      *)
ShellInv ==
    /\ ShellTypeOK
    /\ \A w \in Windows : life[w] = "none" =>
          page[w] = NoPage /\ button[w] = NoPage
    /\ ButtonSettles

ClipInv == ClipboardTypeOK /\ ClipboardFollows

IInv == WindowInv /\ FrameInv /\ ShellInv /\ ClipInv

(* What a step may make of a window's life.                                *)
LifeGoes ==
    \A w \in Windows :
        \/ life'[w] = life[w]
        \/ life[w] = "none" /\ life'[w] = "open"
        \/ life[w] # "none" /\ life'[w] \in {"quitting", "gone"}

-----------------------------------------------------------------------------
(* The first state of a process.                                           *)
LEMMA InitInv == Init => IInv
<1> SUFFICES ASSUME Init PROVE IInv
  OBVIOUS
<1>1. WindowInv /\ FrameInv
  BY InitWindow, InitFrame DEF Init
<1>2. ShellTypeOK
  BY DEF Init, ShellInit, ShellTypeOK
<1>3. \A w \in Windows :
         /\ life[w] = "none" /\ page[w] = NoPage /\ button[w] = NoPage
  BY DEF Init, WindowInit, ShellInit
<1>4. ShellInv
  BY <1>2, <1>3 DEF ShellInv, ButtonSettles
<1>5. ClipInv
  <2>1. /\ owner = "other" /\ changes = 0 /\ alerts = 0
        /\ isOwner = FALSE /\ seen = 0
    BY DEF Init, ClipboardInit
  <2>2. isOwner \in BOOLEAN /\ seen \in 0 .. changes
    <3>1. isOwner \in BOOLEAN
      BY <2>1, Zenon
    <3>2. seen \in 0 .. changes
      BY <2>1
    <3>3. QED
      BY <3>1, <3>2
  <2>3. ClipboardFollows
    BY <2>1, Zenon DEF ClipboardFollows
  <2>4. QED
    BY <2>1, <2>2, <2>3 DEF ClipInv, ClipboardTypeOK
<1>6. QED
  BY <1>1, <1>4, <1>5 DEF IInv

(* Only Open, CloseShell, Quit and Die change a window's life.             *)
LEMMA LifeSteps ==
    ASSUME WindowInv, [Next]_vars
    PROVE  LifeGoes /\ UNCHANGED Env
<1>0. life \in [Windows -> {"none", "open", "quitting", "gone"}]
  BY DEF WindowInv, WindowTypes
<1>1. CASE OpenWindow
  <2>1. PICK w \in Windows : Open(w)
    BY <1>1 DEF OpenWindow
  <2>2. life' = [life EXCEPT ![w] = "open"] /\ life[w] = "none"
        /\ UNCHANGED Env
    BY <2>1 DEF Open, Env
  <2>3. QED
    BY <1>0, <2>2 DEF LifeGoes
<1>2. CASE WindowTask
  <2>1. CASE OnBoundsFromLooper
    BY <2>1 DEF OnBoundsFromLooper, LifeGoes, Env
  <2>2. CASE OnCloseFromLooper
    BY <2>2 DEF OnCloseFromLooper, LifeGoes, Env
  <2>3. CASE CloseShell
    <3>1. PICK w : /\ \/ life' = [life EXCEPT ![w] = "quitting"]
                         /\ life[w] = "open"
                      \/ life' = life
      BY <2>3 DEF CloseShell
    <3>2. UNCHANGED Env
      BY <2>3 DEF CloseShell, Env
    <3>3. QED
      BY <1>0, <3>1, <3>2 DEF LifeGoes
  <2>4. QED
    BY <1>2, <2>1, <2>2, <2>3 DEF WindowTask
<1>3. CASE QuitWindow
  <2>1. PICK w \in Windows : Quit(w)
    BY <1>3 DEF QuitWindow
  <2>2. life' = [life EXCEPT ![w] = "gone"] /\ life[w] = "quitting"
        /\ UNCHANGED Env
    BY <2>1 DEF Quit, Env
  <2>3. QED
    BY <1>0, <2>2 DEF LifeGoes
<1>4. CASE Die
  BY <1>0, <1>4 DEF Die, LifeGoes, Env
<1>5. ASSUME \/ UserInput \/ SetBounds \/ Report \/ CloseClick \/ Viz
      PROVE  UNCHANGED <<life, Env>>
  BY <1>5 DEF UserInput, UserResizes, UserMoves, SetBounds,
              SetBoundsInPixels, Report, FrameResized, CloseClick,
              QuitRequested, Viz, ResizeCanvas, Paint, PresentCanvas, Env
<1>6. ASSUME \/ Load \/ Manifest \/ InstallClick \/ InstallTask
      PROVE  UNCHANGED <<life, Env>>
  BY <1>6 DEF Load, StartLoad, Commit, EndLoad, Manifest, OnManifest,
              OnManifestForInstall, InstallClick, OnInstall, InstallTask,
              RunInstall, Env, windowVars
<1>7. ASSUME \/ StoreClick \/ Copy \/ Watch \/ ClipboardTask
             \/ \E w \in Windows : ChromeStep(w) \/ ListStep(w)
             \/ UNCHANGED vars
      PROVE  UNCHANGED <<life, Env>>
  BY <1>7 DEF StoreClick, Copy, OfferClipboardData, OthersUpload, Watch,
              ClipboardChanged, ClipboardTask, OnClipboardChangedExternally,
              ChromeStep, ListStep, Env, windowVars, vars
<1>8. QED
  BY <1>1, <1>2, <1>3, <1>4, <1>5, <1>6, <1>7 DEF Next, Ui, LifeGoes

-----------------------------------------------------------------------------
(* A task about a window is a task.                                        *)
LEMMA TasksAre ==
    /\ \A w \in Windows : \A k \in WindowTasks :
          Task(k, w) \in Tasks /\ Task(k, w).kind = k
    /\ Task("clipboard", NoWindow) \in Tasks
    /\ Task("clipboard", NoWindow).kind = "clipboard"
BY DEF Task, Tasks, NoRect, Rect, Rects

(* The process is gone with all its windows.                               *)
LEMMA DieKeeps ==
    ASSUME WindowInv, FrameInv, Die
    PROVE  WindowInv' /\ FrameInv'
<1>1. /\ NoNative \in Natives /\ NoRect \in Rects
      /\ NoCanvas \in [height : Int, dirty : SUBSET Bands]
      /\ NoFrame \in [height : Int, stale : SUBSET Bands]
      /\ NoFrame.height = 0
  BY DEF NoNative, Natives, NoRect, Rect, Rects, NoCanvas, NoFrame
<1>2. /\ life' = [w \in Windows |->
                     IF life[w] = "none" THEN "none" ELSE "gone"]
      /\ native' = [w \in Windows |-> NoNative]
      /\ bounds' = [w \in Windows |-> NoRect]
      /\ known' = [w \in Windows |-> {}]
      /\ tasks' = << >>
      /\ moved' = [w \in Windows |-> FALSE]
      /\ canvas' = [w \in Windows |-> NoCanvas]
      /\ frame' = [w \in Windows |-> NoFrame]
  BY DEF Die
<1>3. WindowTypes' /\ ReportsAsked'
  BY <1>1, <1>2 DEF WindowTypes, ReportsAsked
<1>4. \A w \in Windows : Lives(w)'
  BY <1>2 DEF Lives, LooperRuns, Unreported
<1>5. FrameInv'
  BY <1>1, <1>2 DEF FrameInv, FrameNotStale
<1>6. QED
  BY <1>3, <1>4, <1>5 DEF WindowInv

(* The sizes and places of the windows.                                    *)
LEMMA WindowStep ==
    ASSUME WindowInv, FrameInv, [Next]_vars
    PROVE  WindowInv'
<1>1. CASE OpenWindow
  BY <1>1, OpenKeeps DEF OpenWindow
<1>2. CASE UserInput
  BY <1>2, UserResizesKeeps, UserMovesKeeps DEF UserInput
<1>3. CASE SetBounds
  BY <1>3, SetBoundsKeeps DEF SetBounds
<1>4. CASE Report
  BY <1>4, FrameResizedKeeps DEF Report
<1>5. CASE CloseClick
  <2>1. PICK w \in Windows : QuitRequested(w)
    BY <1>5 DEF CloseClick
  <2>2. /\ Task("close", w) \in Tasks
        /\ Task("close", w).kind # "bounds"
    BY TasksAre DEF WindowTasks
  <2>3. QED
    BY <2>1, <2>2, PostKeeps DEF QuitRequested
<1>6. CASE WindowTask
  BY <1>6, OnBoundsKeeps, OnCloseKeeps, CloseShellKeeps DEF WindowTask
<1>7. CASE QuitWindow
  BY <1>7, QuitKeeps DEF QuitWindow
<1>8. CASE Viz
  BY <1>8, NativeKept
     DEF Viz, ResizeCanvas, Paint, PresentCanvas, nativeVars
<1>9. CASE InstallClick
  <2>1. PICK w \in Windows : OnInstall(w)
    BY <1>9 DEF InstallClick
  <2>2. /\ Task("install", w) \in Tasks
        /\ Task("install", w).kind # "bounds"
    BY TasksAre DEF WindowTasks
  <2>3. QED
    BY <2>1, <2>2, PostKeeps DEF OnInstall
<1>10. CASE InstallTask
  BY <1>10, DropKeeps DEF InstallTask, RunInstall, NextTask
<1>11. CASE Watch
  BY <1>11, TasksAre, PostKeeps DEF Watch, ClipboardChanged
<1>12. CASE ClipboardTask
  BY <1>12, DropKeeps
     DEF ClipboardTask, OnClipboardChangedExternally, NextTask
<1>13. CASE Die
  BY <1>13, DieKeeps
<1>14. ASSUME \/ Load \/ Manifest \/ StoreClick \/ Copy
              \/ \E w \in Windows : ChromeStep(w) \/ ListStep(w)
              \/ UNCHANGED vars
       PROVE  UNCHANGED windowVars
  BY <1>14 DEF Load, StartLoad, Commit, EndLoad, Manifest, OnManifest,
               OnManifestForInstall, StoreClick, Copy, OfferClipboardData,
               OthersUpload, ChromeStep, ListStep, vars
<1>15. UNCHANGED windowVars => WindowInv'
  BY NativeKept DEF windowVars, nativeVars
<1>16. QED
  BY <1>1, <1>2, <1>3, <1>4, <1>5, <1>6, <1>7, <1>8, <1>9, <1>10, <1>11,
     <1>12, <1>13, <1>14, <1>15 DEF Next, Ui

(* The frames.                                                             *)
LEMMA FrameStep ==
    ASSUME WindowInv, FrameInv, [Next]_vars
    PROVE  FrameInv'
<1>1. LifeGoes /\ UNCHANGED Env
  BY LifeSteps
<1>2. CASE QuitWindow
  BY <1>2, QuitKeepsFrame DEF QuitWindow
<1>3. CASE Viz
  BY <1>3, ResizeCanvasKeeps, PaintKeeps, PresentKeeps DEF Viz
<1>4. CASE Die
  BY <1>4, DieKeeps
<1>5. UNCHANGED <<canvas, frame>> => FrameInv'
  BY <1>1, FrameKept DEF LifeGoes, Env
<1>6. ASSUME \/ OpenWindow \/ UserInput \/ SetBounds \/ Report
             \/ CloseClick \/ WindowTask
      PROVE  UNCHANGED <<canvas, frame>>
  BY <1>6 DEF OpenWindow, Open, UserInput, UserResizes, UserMoves,
              SetBounds, SetBoundsInPixels, Report, FrameResized,
              CloseClick, QuitRequested, WindowTask, OnBoundsFromLooper,
              OnCloseFromLooper, CloseShell
<1>7. ASSUME \/ Load \/ Manifest \/ InstallClick \/ InstallTask
      PROVE  UNCHANGED <<canvas, frame>>
  BY <1>7 DEF Load, StartLoad, Commit, EndLoad, Manifest, OnManifest,
              OnManifestForInstall, InstallClick, OnInstall, InstallTask,
              RunInstall, windowVars
<1>8. ASSUME \/ StoreClick \/ Copy \/ Watch \/ ClipboardTask
             \/ \E w \in Windows : ChromeStep(w) \/ ListStep(w)
             \/ UNCHANGED vars
      PROVE  UNCHANGED <<canvas, frame>>
  BY <1>8 DEF StoreClick, Copy, OfferClipboardData, OthersUpload, Watch,
              ClipboardChanged, ClipboardTask, OnClipboardChangedExternally,
              ChromeStep, ListStep, windowVars, vars
<1>9. QED
  BY <1>2, <1>3, <1>4, <1>5, <1>6, <1>7, <1>8 DEF Next, Ui

-----------------------------------------------------------------------------
(* Nothing of the shell changes, however the windows do.                   *)
LEMMA ShellKept ==
    ASSUME ShellInv, LifeGoes, toolbar' = toolbar, UNCHANGED shellVars
    PROVE  ShellInv'
<1>1. ShellTypeOK' /\ page' = page /\ button' = button
      /\ loading' = loading /\ requests' = requests
  BY DEF ShellInv, ShellTypeOK, shellVars
<1>2. \A w \in Windows : life'[w] = "none" => life[w] = "none"
  BY DEF LifeGoes
<1>3. ButtonSettles'
  <2>1. SUFFICES ASSUME NEW w \in Windows, life'[w] = "open", ~loading[w],
                        \A i \in 1 .. Len(requests[w]) :
                            requests[w][i] # "button"
                 PROVE  button[w] = IF toolbar THEN Offer(page[w]) ELSE NoPage
    BY <1>1 DEF ButtonSettles, Offer
  <2>2. CASE life[w] = "open"
    BY <2>1, <2>2 DEF ShellInv, ButtonSettles
  <2>3. CASE life[w] = "none"
    <3>1. Offer(NoPage) = NoPage
      BY ShellAssumption DEF Offer
    <3>2. QED
      BY <2>3, <3>1 DEF ShellInv
  <2>4. QED
    BY <2>1, <2>2, <2>3 DEF LifeGoes
<1>4. QED
  BY <1>1, <1>2, <1>3 DEF ShellInv

(* What the button may be told.                                            *)
LEMMA OfferIs ==
    ASSUME NEW p
    PROVE  Offer(p) \in Installable \cup {NoPage}
BY DEF Offer

(* A step of one window's load, or of its page's answers.                  *)
LEMMA LoadKeeps ==
    ASSUME ShellInv, NEW w \in Windows,
           UNCHANGED <<life, toolbar, launcher, linked>>,
           life[w] = "open",
           NEW p \in Pages \cup {NoPage}, NEW a \in Pages \cup {NoPage},
           NEW b \in Installable \cup {NoPage}, NEW l \in BOOLEAN,
           NEW r \in Seq({"button", "install"}),
           page' = [page EXCEPT ![w] = p],
           address' = [address EXCEPT ![w] = a],
           button' = [button EXCEPT ![w] = b],
           loading' = [loading EXCEPT ![w] = l],
           requests' = [requests EXCEPT ![w] = r],
           \/ l
           \/ \E i \in 1 .. Len(r) : r[i] = "button"
           \/ b = IF toolbar THEN Offer(p) ELSE NoPage
    PROVE  ShellInv'
<1>1. ShellTypeOK'
  BY DEF ShellInv, ShellTypeOK
<1>2. /\ page'[w] = p /\ button'[w] = b /\ loading'[w] = l
      /\ requests'[w] = r
      /\ \A v \in Windows \ {w} :
            /\ page'[v] = page[v] /\ button'[v] = button[v]
            /\ loading'[v] = loading[v] /\ requests'[v] = requests[v]
  BY DEF ShellInv, ShellTypeOK
<1>3. ButtonSettles'
  <2>1. SUFFICES ASSUME NEW v \in Windows, life[v] = "open", ~loading'[v],
                        \A i \in 1 .. Len(requests'[v]) :
                            requests'[v][i] # "button"
                 PROVE  button'[v] =
                            IF toolbar THEN Offer(page'[v]) ELSE NoPage
    BY DEF ButtonSettles, Offer
  <2>2. CASE v = w
    BY <1>2, <2>1, <2>2
  <2>3. CASE v # w
    BY <1>2, <2>1, <2>3 DEF ShellInv, ButtonSettles
  <2>4. QED
    BY <2>2, <2>3
<1>4. \A v \in Windows : life'[v] = "none" =>
         page'[v] = NoPage /\ button'[v] = NoPage
  BY <1>2 DEF ShellInv
<1>5. QED
  BY <1>1, <1>3, <1>4 DEF ShellInv

(* The answer to the oldest request is handled.                            *)
LEMMA AnswerIs ==
    ASSUME ShellTypeOK, NEW w \in Windows, requests[w] # << >>
    PROVE  /\ Tail(requests[w]) \in Seq({"button", "install"})
           /\ Head(requests[w]) # "button"
              /\ (\E i \in 1 .. Len(requests[w]) :
                     requests[w][i] = "button")
              => \E i \in 1 .. Len(Tail(requests[w])) :
                     Tail(requests[w])[i] = "button"
<1> PICK s : s = requests[w]
  OBVIOUS
<1>1. s \in Seq({"button", "install"})
  BY DEF ShellTypeOK
<1>2. /\ Tail(s) \in Seq({"button", "install"})
      /\ Len(Tail(s)) = Len(s) - 1 /\ Len(s) \in Nat \ {0}
      /\ Head(s) = s[1]
      /\ \A i \in 1 .. Len(s) - 1 : Tail(s)[i] = s[i + 1]
  BY <1>1, TailIs
<1>3. ASSUME Head(s) # "button", NEW i \in 1 .. Len(s), s[i] = "button"
      PROVE  i - 1 \in 1 .. Len(Tail(s)) /\ Tail(s)[i - 1] = "button"
  <2>1. i # 1
    BY <1>2, <1>3
  <2>2. QED
    BY <1>2, <1>3, <2>1
<1>4. QED
  BY <1>2, <1>3

(* A request is put behind the others.                                     *)
LEMMA RequestIs ==
    ASSUME ShellTypeOK, NEW w \in Windows,
           NEW q \in {"button", "install"}
    PROVE  LET r == Append(requests[w], q)
           IN  /\ r \in Seq({"button", "install"})
               /\ q = "button"
                  \/ (\E i \in 1 .. Len(requests[w]) :
                         requests[w][i] = "button")
                  => \E i \in 1 .. Len(r) : r[i] = "button"
<1> PICK s, r : s = requests[w] /\ r = Append(s, q)
  OBVIOUS
<1>1. s \in Seq({"button", "install"}) /\ Len(s) \in Nat
  BY EmptyIs DEF ShellTypeOK
<1>2. /\ r \in Seq({"button", "install"}) /\ Len(r) = Len(s) + 1
      /\ \A i \in 1 .. Len(s) : r[i] = s[i]
      /\ r[Len(s) + 1] = q
  BY <1>1, AppendIs
<1>3. QED
  BY <1>1, <1>2

(* The windows of W are gone with their Shells.                            *)
LEMMA ShellGoneKeeps ==
    ASSUME ShellInv, LifeGoes, toolbar' = toolbar, NEW W,
           \A w \in W : life'[w] # "open", ShellGone(W)
    PROVE  ShellInv'
<1>1. /\ page' = [w \in Windows |-> IF w \in W THEN NoPage ELSE page[w]]
      /\ address' =
            [w \in Windows |-> IF w \in W THEN NoPage ELSE address[w]]
      /\ loading' = [w \in Windows |-> w \notin W /\ loading[w]]
      /\ requests' =
            [w \in Windows |-> IF w \in W THEN << >> ELSE requests[w]]
      /\ button' = [w \in Windows |-> IF w \in W THEN NoPage ELSE button[w]]
      /\ UNCHANGED <<launcher, linked>>
  BY DEF ShellGone
<1>2. ShellTypeOK'
  <2>1. loading' \in [Windows -> BOOLEAN]
    BY <1>1
  <2>2. << >> \in Seq({"button", "install"})
    OBVIOUS
  <2>3. QED
    BY <1>1, <2>1, <2>2 DEF ShellInv, ShellTypeOK
<1>3. \A w \in Windows : life'[w] = "none" => life[w] = "none"
  BY DEF LifeGoes
<1>4. ButtonSettles'
  <2>1. SUFFICES ASSUME NEW w \in Windows, life'[w] = "open", ~loading'[w],
                        \A i \in 1 .. Len(requests'[w]) :
                            requests'[w][i] # "button"
                 PROVE  button'[w] =
                            IF toolbar THEN Offer(page'[w]) ELSE NoPage
    BY DEF ButtonSettles, Offer
  <2>2. /\ page'[w] = page[w] /\ button'[w] = button[w]
        /\ requests'[w] = requests[w] /\ w \notin W
    BY <1>1, <2>1
  <2>3. ~loading[w]
    BY <1>1, <2>1, <2>2
  <2>4. CASE life[w] = "open"
    BY <2>1, <2>2, <2>3, <2>4 DEF ShellInv, ButtonSettles
  <2>5. CASE life[w] = "none"
    <3>1. Offer(NoPage) = NoPage
      BY ShellAssumption DEF Offer
    <3>2. QED
      BY <2>2, <2>5, <3>1 DEF ShellInv
  <2>6. QED
    BY <2>1, <2>4, <2>5 DEF LifeGoes
<1>5. QED
  BY <1>1, <1>2, <1>3, <1>4 DEF ShellInv

(* The shells.                                                             *)
LEMMA ShellStep ==
    ASSUME WindowInv, ShellInv, [Next]_vars
    PROVE  ShellInv'
<1>1. LifeGoes /\ toolbar' = toolbar
  BY LifeSteps DEF Env
<1>2. ShellTypeOK
  BY DEF ShellInv
<1>3. ASSUME NEW w \in Windows, StartLoad(w)
      PROVE  ShellInv'
  <2>1. /\ page' = [page EXCEPT ![w] = page[w]]
        /\ address' = [address EXCEPT ![w] = address[w]]
        /\ button' = [button EXCEPT ![w] = button[w]]
        /\ loading' = [loading EXCEPT ![w] = TRUE]
        /\ requests' = [requests EXCEPT ![w] = requests[w]]
        /\ life[w] = "open" /\ UNCHANGED <<life, toolbar, launcher, linked>>
    BY <1>2, <1>3 DEF StartLoad, ShellTypeOK, windowVars, Env
  <2>2. /\ page[w] \in Pages \cup {NoPage}
        /\ address[w] \in Pages \cup {NoPage}
        /\ button[w] \in Installable \cup {NoPage}
        /\ requests[w] \in Seq({"button", "install"})
    BY <1>2 DEF ShellTypeOK
  <2>3. QED
    BY <2>1, <2>2, LoadKeeps
<1>4. ASSUME NEW w \in Windows, Commit(w)
      PROVE  ShellInv'
  <2>1. PICK p \in Pages : /\ page' = [page EXCEPT ![w] = p]
                           /\ address' = [address EXCEPT ![w] = p]
    BY <1>4 DEF Commit
  <2>2. PICK b \in Installable \cup {NoPage} :
           button' = [button EXCEPT ![w] = b]
    <3>1. CASE button' = button
      BY <1>2, <3>1 DEF ShellTypeOK
    <3>2. CASE button' = Offered(w, NoPage)
      BY <3>2, OfferIs DEF Offered
    <3>3. QED
      BY <1>4, <3>1, <3>2 DEF Commit
  <2>3. /\ loading[w] /\ loading' = loading
        /\ requests' = [requests EXCEPT ![w] = << >>]
        /\ life[w] = "open" /\ UNCHANGED <<life, toolbar, launcher, linked>>
    BY <1>4 DEF Commit, windowVars, Env
  <2>4. loading' = [loading EXCEPT ![w] = TRUE]
    <3>1. loading[w] = TRUE
      BY <1>2, <2>3 DEF ShellTypeOK
    <3>2. QED
      BY <1>2, <2>3, <3>1 DEF ShellTypeOK
  <2>5. << >> \in Seq({"button", "install"}) /\ p \in Pages \cup {NoPage}
    OBVIOUS
  <2>6. QED
    BY <2>1, <2>2, <2>3, <2>4, <2>5, LoadKeeps
<1>5. ASSUME NEW w \in Windows, EndLoad(w)
      PROVE  ShellInv'
  <2> PICK r : r = Append(requests[w], "button")
    OBVIOUS
  <2>1. /\ page' = [page EXCEPT ![w] = page[w]]
        /\ address' = [address EXCEPT ![w] = address[w]]
        /\ button' = [button EXCEPT ![w] = button[w]]
        /\ loading' = [loading EXCEPT ![w] = FALSE]
        /\ requests' = [requests EXCEPT ![w] = r]
        /\ life[w] = "open" /\ UNCHANGED <<life, toolbar, launcher, linked>>
    BY <1>2, <1>5 DEF EndLoad, ShellTypeOK, windowVars, Env
  <2>2. /\ page[w] \in Pages \cup {NoPage}
        /\ address[w] \in Pages \cup {NoPage}
        /\ button[w] \in Installable \cup {NoPage}
    BY <1>2 DEF ShellTypeOK
  <2>3. /\ r \in Seq({"button", "install"})
        /\ \E i \in 1 .. Len(r) : r[i] = "button"
    BY <1>2, RequestIs
  <2>4. QED
    BY <2>1, <2>2, <2>3, LoadKeeps
<1>6. ASSUME NEW w \in Windows, OnManifest(w)
      PROVE  ShellInv'
  <2> PICK r, b : /\ r = Tail(requests[w])
                  /\ b = IF toolbar THEN Offer(page[w]) ELSE NoPage
    OBVIOUS
  <2>1. /\ page' = [page EXCEPT ![w] = page[w]]
        /\ address' = [address EXCEPT ![w] = address[w]]
        /\ button' = [button EXCEPT ![w] = b]
        /\ loading' = [loading EXCEPT ![w] = loading[w]]
        /\ requests' = [requests EXCEPT ![w] = r]
        /\ life[w] = "open" /\ UNCHANGED <<life, toolbar, launcher, linked>>
    BY <1>2, <1>6
       DEF OnManifest, Asked, Offered, ShellTypeOK, windowVars, Env
  <2>2. /\ page[w] \in Pages \cup {NoPage}
        /\ address[w] \in Pages \cup {NoPage}
        /\ b \in Installable \cup {NoPage}
        /\ loading[w] \in BOOLEAN
    BY <1>2, OfferIs DEF ShellTypeOK
  <2>3. r \in Seq({"button", "install"})
    <3>1. requests[w] # << >>
      BY <1>6 DEF OnManifest, Asked
    <3>2. QED
      BY <1>2, <3>1, AnswerIs
  <2>4. QED
    BY <2>1, <2>2, <2>3, LoadKeeps, ZenonT(60)
<1>7. ASSUME NEW w \in Windows, OnManifestForInstall(w)
      PROVE  ShellInv'
  <2>1. PICK p : AppToInstall(w) = p
    OBVIOUS
  <2>2. /\ launcher' \in [Pages -> {"none", "torn", "whole"}]
        /\ linked' \in SUBSET Pages
    <3>1. p = NoPage \/ p \in Pages
      BY <2>1, ShellAssumption, OfferIs DEF AppToInstall
    <3>2. launcher \in [Pages -> {"none", "torn", "whole"}]
          /\ linked \in SUBSET Pages
      BY <1>2 DEF ShellTypeOK
    <3>3. CASE UNCHANGED <<launcher, linked>>
      BY <3>2, <3>3
    <3>4. CASE p # NoPage
      <4>1. InstallFails(p) \/ WriteFails(p) \/ LinkFails(p) \/ Installs(p)
        BY <1>7, <2>1, <3>4 DEF OnManifestForInstall
      <4>2. QED
        BY <3>1, <3>2, <3>4, <4>1
           DEF InstallFails, WriteFails, LinkFails, Installs
    <3>5. QED
      BY <1>7, <2>1, <3>3, <3>4 DEF OnManifestForInstall
  <2>3. /\ requests[w] # << >> /\ Head(requests[w]) = "install"
        /\ requests' = [requests EXCEPT ![w] = Tail(requests[w])]
        /\ UNCHANGED <<page, address, loading, button, life, toolbar>>
    BY <1>7 DEF OnManifestForInstall, Asked, windowVars, Env
  <2>4. ShellTypeOK'
    <3>1. Tail(requests[w]) \in Seq({"button", "install"})
      BY <1>2, <2>3, AnswerIs
    <3>2. QED
      BY <1>2, <2>2, <2>3, <3>1 DEF ShellTypeOK
  <2>5. \A v \in Windows :
           (\E i \in 1 .. Len(requests[v]) : requests[v][i] = "button")
           => \E i \in 1 .. Len(requests'[v]) : requests'[v][i] = "button"
    <3>1. SUFFICES ASSUME NEW v \in Windows,
                          \E i \in 1 .. Len(requests[v]) :
                              requests[v][i] = "button"
                   PROVE  \E i \in 1 .. Len(requests'[v]) :
                              requests'[v][i] = "button"
      OBVIOUS
    <3>2. CASE v = w
      BY <1>2, <2>3, <3>1, <3>2, AnswerIs DEF ShellTypeOK
    <3>3. CASE v # w
      BY <1>2, <2>3, <3>1, <3>3 DEF ShellTypeOK
    <3>4. QED
      BY <3>2, <3>3
  <2>6. QED
    BY <2>3, <2>4, <2>5 DEF ShellInv, ButtonSettles, Offer
<1>8. CASE InstallTask
  <2>1. PICK w : /\ \/ requests' = requests
                    \/ /\ w \in Windows
                       /\ requests' = [requests EXCEPT ![w] =
                                          Append(requests[w], "install")]
                 /\ UNCHANGED <<page, address, loading, button, launcher,
                                linked, life>>
    <3>1. PICK w : w = Head(tasks).win
      OBVIOUS
    <3>2. tasks # << >> /\ Head(tasks).kind = "install"
      BY <1>8 DEF InstallTask, RunInstall, NextTask
    <3>3. w \in Windows
      BY <3>1, <3>2, TailIs DEF WindowInv, WindowTypes, Tasks
    <3>4. QED
      BY <1>8, <3>1, <3>3 DEF InstallTask, RunInstall
  <2>2. CASE requests' = requests
    BY <1>1, <2>1, <2>2, ShellKept DEF shellVars
  <2>3. CASE requests' # requests
    <3>1. /\ w \in Windows
          /\ requests' = [requests EXCEPT ![w] =
                             Append(requests[w], "install")]
      BY <2>1, <2>3
    <3>2. /\ requests' \in [Windows -> Seq({"button", "install"})]
          /\ \A v \in Windows :
                (\E i \in 1 .. Len(requests[v]) : requests[v][i] = "button")
                => \E i \in 1 .. Len(requests'[v]) :
                       requests'[v][i] = "button"
      BY <1>2, <3>1, RequestIs DEF ShellTypeOK
    <3>3. QED
      BY <1>1, <1>2, <2>1, <3>2
         DEF ShellInv, ShellTypeOK, ButtonSettles, Offer
  <2>4. QED
    BY <2>2, <2>3
<1>9. CASE QuitWindow
  <2>1. PICK w \in Windows : Quit(w) /\ ShellGone({w})
    BY <1>9 DEF QuitWindow
  <2>2. life'[w] # "open"
    BY <2>1 DEF Quit, WindowInv, WindowTypes
  <2>3. QED
    BY <1>1, <2>1, <2>2, ShellGoneKeeps
<1>10. CASE Die
  <2>1. ShellGone(Windows) /\ \A w \in Windows : life'[w] # "open"
    BY <1>10 DEF Die
  <2>2. QED
    BY <1>1, <2>1, ShellGoneKeeps
<1>11. ASSUME \/ OpenWindow \/ UserInput \/ SetBounds \/ Report
              \/ CloseClick \/ WindowTask \/ Viz \/ InstallClick
       PROVE  UNCHANGED shellVars
  BY <1>11 DEF OpenWindow, UserInput, SetBounds, Report, CloseClick,
               WindowTask, Viz, InstallClick, OnInstall
<1>12. ASSUME \/ StoreClick \/ Copy \/ Watch \/ ClipboardTask
              \/ \E w \in Windows : ChromeStep(w) \/ ListStep(w)
              \/ UNCHANGED vars
       PROVE  UNCHANGED shellVars
  BY <1>12 DEF StoreClick, Copy, Watch, ClipboardTask, ChromeStep,
               ListStep, vars
<1>13. QED
  BY <1>1, <1>3, <1>4, <1>5, <1>6, <1>7, <1>8, <1>9, <1>10, <1>11, <1>12,
     ShellKept DEF Next, Ui, Load, Manifest

-----------------------------------------------------------------------------
(* News on its way stays on its way, until the task that brings it runs.   *)
LEMMA AlertKept ==
    ASSUME tasks \in Seq(Tasks), UNCHANGED alerts,
           \/ tasks' = tasks
           \/ \E t \in Tasks : tasks' = Append(tasks, t)
           \/ /\ tasks # << >> /\ Head(tasks).kind # "clipboard"
              /\ tasks' = Tail(tasks)
           \/ /\ tasks # << >> /\ Head(tasks).kind # "clipboard"
              /\ \E t \in Tasks : tasks' = Append(Tail(tasks), t)
    PROVE  Alerted => Alerted'
<1> SUFFICES ASSUME NEW i \in 1 .. Len(tasks), tasks[i].kind = "clipboard"
             PROVE  \E j \in 1 .. Len(tasks') : tasks'[j].kind = "clipboard"
  BY DEF Alerted
<1>1. CASE tasks' = tasks
  BY <1>1
<1>2. CASE \E t \in Tasks : tasks' = Append(tasks, t)
  BY <1>2, AppendIs
<1>3. CASE /\ tasks # << >> /\ Head(tasks).kind # "clipboard"
           /\ \/ tasks' = Tail(tasks)
              \/ \E t \in Tasks : tasks' = Append(Tail(tasks), t)
  <2> PICK s : s = Tail(tasks)
    OBVIOUS
  <2>1. /\ s \in Seq(Tasks) /\ Len(s) = Len(tasks) - 1
        /\ \A j \in 1 .. Len(tasks) - 1 : s[j] = tasks[j + 1]
        /\ tasks[1].kind # "clipboard" /\ Len(tasks) \in Nat
    BY <1>3, TailIs
  <2>2. i - 1 \in 1 .. Len(s) /\ s[i - 1] = tasks[i]
    <3>1. i # 1
      BY <2>1
    <3>2. QED
      BY <2>1, <3>1
  <2>3. CASE tasks' = s
    BY <2>2, <2>3
  <2>4. CASE \E t \in Tasks : tasks' = Append(s, t)
    <3>1. PICK t \in Tasks : tasks' = Append(s, t)
      BY <2>4
    <3>2. /\ Len(Append(s, t)) = Len(s) + 1 /\ Len(s) \in Nat
          /\ \A j \in 1 .. Len(s) : Append(s, t)[j] = s[j]
      BY <2>1, AppendIs
    <3>3. i - 1 \in 1 .. Len(tasks') /\ tasks'[i - 1] = s[i - 1]
      BY <2>2, <3>1, <3>2
    <3>4. QED
      BY <2>2, <3>3
  <2>5. QED
    BY <1>3, <2>3, <2>4
<1>4. QED
  BY <1>1, <1>2, <1>3

(* What the window's and the shell's steps do to the queue of tasks.       *)
LEMMA TaskSteps ==
    ASSUME WindowInv,
           \/ OpenWindow \/ UserInput \/ SetBounds \/ Report \/ CloseClick
           \/ WindowTask \/ QuitWindow \/ Viz \/ Load \/ Manifest
           \/ InstallClick \/ InstallTask
    PROVE  \/ tasks' = tasks
           \/ \E t \in Tasks : tasks' = Append(tasks, t)
           \/ /\ tasks # << >> /\ Head(tasks).kind # "clipboard"
              /\ tasks' = Tail(tasks)
           \/ /\ tasks # << >> /\ Head(tasks).kind # "clipboard"
              /\ \E t \in Tasks : tasks' = Append(Tail(tasks), t)
<1>1. CASE Report
  <2>1. PICK w \in Windows : FrameResized(w)
    BY <1>1 DEF Report
  <2> DEFINE r == Rect(native[w].at, Head(native[w].notices))
  <2>2. r \in Rects
    <3>1. native[w].at \in Int /\ native[w].notices \in Seq(Int)
      BY DEF WindowInv, WindowTypes, Natives
    <3>2. Head(native[w].notices) \in Int
      BY <2>1, <3>1, TailIs DEF FrameResized
    <3>3. QED
      BY <3>1, <3>2 DEF Rect, Rects
  <2>3. BoundsTask(w, r) \in Tasks
    BY <2>2 DEF BoundsTask, Tasks, WindowTasks
  <2>4. QED
    BY <2>1, <2>3 DEF FrameResized
<1>2. CASE CloseClick
  BY <1>2, TasksAre DEF CloseClick, QuitRequested, WindowTasks
<1>3. CASE InstallClick
  BY <1>3, TasksAre DEF InstallClick, OnInstall, WindowTasks
<1>4. CASE WindowTask
  <2>1. CASE OnBoundsFromLooper
    BY <2>1 DEF OnBoundsFromLooper, NextTask
  <2>2. CASE CloseShell
    BY <2>2 DEF CloseShell, NextTask
  <2>3. CASE OnCloseFromLooper
    <3> PICK w : w = Head(tasks).win
      OBVIOUS
    <3>1. tasks # << >> /\ Head(tasks).kind = "close"
      BY <2>3 DEF OnCloseFromLooper, NextTask
    <3>2. w \in Windows
      BY <3>1, TailIs DEF WindowInv, WindowTypes, Tasks
    <3>3. Task("closeShell", w) \in Tasks
      BY <3>2, TasksAre DEF WindowTasks
    <3>4. QED
      BY <2>3, <3>1, <3>3 DEF OnCloseFromLooper
  <2>4. QED
    BY <1>4, <2>1, <2>2, <2>3 DEF WindowTask
<1>5. CASE InstallTask
  BY <1>5 DEF InstallTask, RunInstall, NextTask
<1>6. CASE \/ OpenWindow \/ UserInput \/ SetBounds \/ QuitWindow \/ Viz
           \/ Load \/ Manifest
  BY <1>6 DEF OpenWindow, Open, UserInput, UserResizes, UserMoves,
              SetBounds, SetBoundsInPixels, QuitWindow, Quit, Viz,
              ResizeCanvas, Paint, PresentCanvas, Load, StartLoad, Commit,
              EndLoad, Manifest, OnManifest, OnManifestForInstall,
              windowVars
<1>7. QED
  BY <1>1, <1>2, <1>3, <1>4, <1>5, <1>6

(* The clipboard.                                                          *)
LEMMA ClipStep ==
    ASSUME WindowInv, ClipInv, [Next]_vars
    PROVE  ClipInv'
<1>1. /\ changes \in Nat /\ alerts \in Nat /\ isOwner \in BOOLEAN
      /\ seen \in 0 .. changes /\ owner \in {"this", "other"}
      /\ tasks \in Seq(Tasks)
  BY DEF ClipInv, ClipboardTypeOK, WindowInv, WindowTypes
<1>2. ASSUME UNCHANGED clipVars, Alerted => Alerted'
      PROVE  ClipInv'
  BY <1>2 DEF ClipInv, ClipboardTypeOK, ClipboardFollows, clipVars
<1>3. CASE \/ OpenWindow \/ UserInput \/ SetBounds \/ Report \/ CloseClick
           \/ WindowTask \/ QuitWindow \/ Viz \/ Load \/ Manifest
           \/ InstallClick \/ InstallTask
  <2>1. UNCHANGED clipVars
    BY <1>3 DEF OpenWindow, UserInput, SetBounds, Report, CloseClick,
                WindowTask, QuitWindow, Viz, Load, Manifest, InstallClick,
                InstallTask
  <2>2. Alerted => Alerted'
    BY <1>1, <1>3, <2>1, TaskSteps, AlertKept DEF clipVars
  <2>3. QED
    BY <1>2, <2>1, <2>2
<1>4. CASE \/ StoreClick \/ UNCHANGED vars
           \/ \E w \in Windows : ChromeStep(w) \/ ListStep(w)
  <2>1. UNCHANGED clipVars /\ tasks' = tasks
    BY <1>4 DEF StoreClick, ChromeStep, ListStep, vars, windowVars
  <2>2. QED
    BY <1>2, <2>1 DEF Alerted, clipVars
<1>5. CASE Copy
  <2>1. CASE UNCHANGED <<owner, changes, alerts, isOwner>> /\ seen' = changes'
             /\ tasks' = tasks
    BY <1>1, <2>1
       DEF ClipInv, ClipboardTypeOK, ClipboardFollows, Alerted
  <2>2. CASE \/ Upload("this") /\ isOwner' = TRUE /\ seen' = changes'
             \/ Upload("other") /\ UNCHANGED <<isOwner, seen>>
    <3>1. alerts' = alerts + 1 /\ changes' = changes + 1
          /\ owner' \in {"this", "other"} /\ seen' \in {changes', seen}
      BY <2>2 DEF Upload
    <3>2. Alerted'
      BY <1>1, <3>1 DEF Alerted
    <3>3. isOwner' \in BOOLEAN
      BY <1>1, <2>2
    <3>4. ClipboardTypeOK'
      BY <1>1, <3>1, <3>3 DEF ClipboardTypeOK
    <3>5. QED
      BY <3>2, <3>4 DEF ClipInv, ClipboardFollows
  <2>3. QED
    BY <1>5, <2>1, <2>2
       DEF Copy, OfferClipboardData, OthersUpload, windowVars
<1>6. CASE Watch
  <2>1. /\ tasks' = Append(tasks, Task("clipboard", NoWindow))
        /\ alerts > 0 /\ alerts' = alerts - 1
        /\ UNCHANGED <<owner, changes, isOwner, seen>>
    BY <1>6 DEF Watch, ClipboardChanged
  <2>2. Alerted'
    BY <1>1, <2>1, TasksAre, AppendIs DEF Alerted
  <2>3. ClipboardTypeOK'
    BY <1>1, <2>1 DEF ClipboardTypeOK
  <2>4. QED
    BY <2>2, <2>3 DEF ClipInv, ClipboardFollows
<1>7. CASE ClipboardTask
  <2>1. /\ isOwner' = FALSE /\ seen' = changes
        /\ UNCHANGED <<owner, changes, alerts>>
    BY <1>7 DEF ClipboardTask, OnClipboardChangedExternally
  <2>2. ~isOwner' /\ isOwner' \in BOOLEAN
    BY <2>1, Zenon
  <2>3. QED
    BY <1>1, <2>1, <2>2 DEF ClipInv, ClipboardTypeOK, ClipboardFollows
<1>8. CASE Die
  <2>1. /\ isOwner' = FALSE /\ seen' = changes /\ changes' = changes
        /\ owner' = "other" /\ alerts' = 0
    BY <1>8 DEF Die, ClipboardDies
  <2>2. ~isOwner' /\ isOwner' \in BOOLEAN
    BY <2>1, Zenon
  <2>3. QED
    BY <1>1, <2>1, <2>2 DEF ClipInv, ClipboardTypeOK, ClipboardFollows
<1>9. QED
  BY <1>3, <1>4, <1>5, <1>6, <1>7, <1>8 DEF Next, Ui

-----------------------------------------------------------------------------
(* All of it is kept by every step.                                        *)
LEMMA Inductive == Spec => []IInv
<1>1. Init => IInv
  BY InitInv
<1>2. IInv /\ [Next]_vars => IInv'
  BY WindowStep, FrameStep, ShellStep, ClipStep DEF IInv
<1>3. QED
  BY <1>1, <1>2, PTL DEF Spec

(* Once every report has been handled, bounds_ and the manager's entry     *)
(* have the content view's size, and its place unless the window was moved *)
(* since; for any windows, sizes and places.                               *)
THEOREM Settled == Spec => []BoundsSettle
<1>1. IInv => BoundsSettle
  BY WindowsSettle DEF IInv
<1>2. QED
  BY <1>1, Inductive, PTL

(* Chromium hears of no content size that nobody asked for.                *)
THEOREM AskedSizes == Spec => []OnlyAskedSizes
<1>1. IInv => OnlyAskedSizes
  BY SizesAsked DEF IInv
<1>2. QED
  BY <1>1, Inductive, PTL

(* What a view draws differs from its canvas only where viz has yet to     *)
(* present.                                                                *)
THEOREM FramesFollow == Spec => []FrameNotStale
<1>1. IInv => FrameNotStale
  BY DEF IInv, FrameInv
<1>2. QED
  BY <1>1, Inductive, PTL

(* Once its page has answered, a window's install button offers the page's *)
(* app or is hidden.                                                       *)
THEOREM ButtonsFollow == Spec => []ButtonSettles
<1>1. IInv => ButtonSettles
  BY DEF IInv, ShellInv
<1>2. QED
  BY <1>1, Inductive, PTL

(* The process takes the clipboard for its own, or misses a change, only   *)
(* while news is on its way.                                               *)
THEOREM OwnerFollows == Spec => []ClipboardFollows
<1>1. IInv => ClipboardFollows
  BY DEF IInv, ClipInv
<1>2. QED
  BY <1>1, Inductive, PTL

(* A step that writes a launcher or a Deskbar entry.                       *)
LEMMA OnlyInstalls ==
    ASSUME [Next]_vars
    PROVE  \/ UNCHANGED <<launcher, linked>>
           \/ \E w \in Windows : OnManifestForInstall(w)
<1>1. ASSUME \/ OpenWindow \/ UserInput \/ SetBounds \/ Report
             \/ CloseClick \/ WindowTask \/ Viz \/ InstallClick
             \/ StoreClick \/ Copy \/ Watch \/ ClipboardTask
             \/ \E w \in Windows : ChromeStep(w) \/ ListStep(w)
             \/ UNCHANGED vars
      PROVE  UNCHANGED shellVars
  BY <1>1 DEF OpenWindow, UserInput, SetBounds, Report, CloseClick,
              WindowTask, Viz, InstallClick, OnInstall, StoreClick, Copy,
              Watch, ClipboardTask, ChromeStep, ListStep, vars
<1>2. ASSUME \/ QuitWindow \/ Die \/ Load \/ InstallTask
      PROVE  UNCHANGED <<launcher, linked>>
  BY <1>2 DEF QuitWindow, Die, ShellGone, Load, StartLoad, Commit, EndLoad,
              InstallTask, RunInstall
<1>3. CASE Manifest
  BY <1>3 DEF Manifest, OnManifest
<1>4. QED
  BY <1>1, <1>2, <1>3 DEF Next, Ui, shellVars

(* What an installation writes.                                            *)
LEMMA InstallIs ==
    ASSUME ShellTypeOK, NEW w \in Windows, OnManifestForInstall(w)
    PROVE  /\ life[w] = "open"
           /\ \A p \in Pages : launcher'[p] # launcher[p] => page[w] = p
           /\ \A p \in linked' \ linked : launcher'[p] = "whole"
<1> PICK q : q = Offer(page[w])
  OBVIOUS
<1>1. life[w] = "open"
  BY DEF OnManifestForInstall, Asked
<1>2. launcher \in [Pages -> {"none", "torn", "whole"}]
  BY DEF ShellTypeOK
<1>3. CASE UNCHANGED <<launcher, linked>>
  BY <1>1, <1>3
<1>4. CASE q # NoPage
  <2>1. page[w] = q /\ q \in Pages
    BY <1>4, ShellAssumption DEF Offer
  <2>2. InstallFails(q) \/ WriteFails(q) \/ LinkFails(q) \/ Installs(q)
    BY <1>4 DEF OnManifestForInstall, AppToInstall
  <2>3. QED
    BY <1>1, <1>2, <2>1, <2>2
       DEF InstallFails, WriteFails, LinkFails, Installs
<1>5. QED
  BY <1>3, <1>4 DEF OnManifestForInstall, AppToInstall

(* Only the app of a page on display is installed, whenever the click was. *)
THEOREM InstallsShown == Spec => InstallsWhatIsShown
<1>1. IInv /\ [Next]_vars =>
          [\A p \in Pages : launcher'[p] # launcher[p] =>
              \E w \in Windows : life[w] = "open" /\ page[w] = p]_shellVars
  BY OnlyInstalls, InstallIs DEF IInv, ShellInv
<1>2. QED
  BY <1>1, Inductive, PTL DEF Spec, InstallsWhatIsShown

(* Deskbar is given an entry only when its launcher is whole.              *)
THEOREM ListsWhole == Spec => ListedWhole
<1>1. IInv /\ [Next]_vars =>
          [\A p \in linked' \ linked : launcher'[p] = "whole"]_shellVars
  BY OnlyInstalls, InstallIs DEF IInv, ShellInv
<1>2. QED
  BY <1>1, Inductive, PTL DEF Spec, ListedWhole
-----------------------------------------------------------------------------
(* The loop of Add appends at the end: the lines of such a sequence.       *)
LEMMA LinesAppended ==
    ASSUME NEW S, NEW s \in Seq(S), NEW u \in S
    PROVE  /\ Append(s, u) \in Seq(S)
           /\ Len(Append(s, u)) = Len(s) + 1
           /\ Lines(Append(s, u)) = Lines(s) \cup {u}
           /\ u \notin Lines(s) /\ IsInjective(s)
                 => IsInjective(Append(s, u))
<1> DEFINE a == Append(s, u)
           n == Len(s)
<1>1. /\ a \in Seq(S) /\ Len(a) = n + 1
      /\ \A i \in 1 .. n : a[i] = s[i]
      /\ a[n + 1] = u
  BY AppendProperties
<1>2. n \in Nat /\ DOMAIN s = 1 .. n /\ DOMAIN a = 1 .. (n + 1)
  BY <1>1, LenProperties
<1> HIDE DEF a, n
<1>3. 1 .. (n + 1) = (1 .. n) \cup {n + 1}
  BY <1>2
<1>4. Lines(a) = Lines(s) \cup {u}
  <2>1. Lines(a) = {a[i] : i \in (1 .. n) \cup {n + 1}}
    BY <1>1, <1>3, Zenon DEF Lines
  <2>2. Lines(s) = {s[i] : i \in 1 .. n}
    BY DEF Lines, n
  <2>3. QED
    BY <1>1, <2>1, <2>2
<1>5. ASSUME u \notin Lines(s), IsInjective(s) PROVE IsInjective(a)
  <2>1. \A i \in 1 .. n : s[i] # u
    BY <1>5 DEF Lines, n
  <2>2. \A i, j \in 1 .. n : s[i] = s[j] => i = j
    BY <1>2, <1>5 DEF IsInjective
  <2>3. \A i, j \in (1 .. n) \cup {n + 1} : a[i] = a[j] => i = j
    BY <1>1, <2>1, <2>2
  <2>4. QED
    BY <1>2, <1>3, <2>3 DEF IsInjective
<1>6. QED
  BY <1>1, <1>4, <1>5 DEF a, n

(* The loop of Add that erases an entry.                                   *)
LEMMA Removed ==
    ASSUME NEW S, NEW s \in Seq(S), NEW u, IsInjective(s)
    PROVE  /\ RemoveFirst(s, u) \in Seq(S)
           /\ Lines(RemoveFirst(s, u)) = Lines(s) \ {u}
           /\ IsInjective(RemoveFirst(s, u))
<1> DEFINE n == Len(s)
           r == RemoveFirst(s, u)
<1>1. /\ n \in Nat /\ DOMAIN s = 1 .. n
      /\ \A i \in 1 .. n : s[i] \in S
  BY LenProperties, ElementOfSeq
<1>2. \A i, j \in 1 .. n : s[i] = s[j] => i = j
  BY <1>1 DEF IsInjective
<1>3. CASE ~\E i \in 1 .. n : s[i] = u
  <2>1. r = s
    BY <1>3 DEF RemoveFirst
  <2>2. u \notin Lines(s)
    BY <1>3 DEF Lines
  <2>3. QED
    BY <2>1, <2>2
<1>4. ASSUME NEW k \in 1 .. n, s[k] = u
      PROVE  /\ r \in Seq(S) /\ Lines(r) = Lines(s) \ {u} /\ IsInjective(r)
  <2>1. {i \in 1 .. n : s[i] = u} = {k}
    BY <1>2, <1>4
  <2>2. Min({k}) = k
    <3>1. k \in {k} /\ \A y \in {k} : k <= y
      BY <1>1
    <3>2. QED
      BY <3>1 DEF Min
  <2>3. SelectInSeq(s, LAMBDA v : v = u) = k
    BY <2>1, <2>2 DEF SelectInSeq
  <2> DEFINE front == SubSeq(s, 1, k - 1)
             back == SubSeq(s, k + 1, n)
  <2>4. r = front \o back
    BY <1>4, <2>3 DEF RemoveFirst, RemoveAt
  <2>5. k \in Nat /\ k >= 1 /\ k <= n
    BY <1>1
  <2>6. /\ front \in Seq(S) /\ Len(front) = k - 1
        /\ \A i \in 1 .. (k - 1) : front[i] = s[i]
    <3>1. 1 \in Int /\ k - 1 \in Int
      BY <2>5
    <3>2. \A i \in 1 .. (k - 1) : s[i] \in S
      BY <1>1, <2>5
    <3>3. /\ front \in Seq(S)
          /\ Len(front) = IF 1 <= k - 1 THEN (k - 1) - 1 + 1 ELSE 0
          /\ \A i \in 1 .. ((k - 1) - 1 + 1) : front[i] = s[1 + i - 1]
      BY <3>1, <3>2, SubSeqProperties
    <3> HIDE DEF front
    <3>4. QED
      BY <2>5, <3>3
  <2>7. /\ back \in Seq(S) /\ Len(back) = n - k
        /\ \A i \in 1 .. (n - k) : back[i] = s[k + i]
    <3>1. k + 1 \in Int /\ n \in Int
      BY <1>1, <2>5
    <3>2. \A i \in (k + 1) .. n : s[i] \in S
      BY <1>1, <2>5
    <3>3. /\ back \in Seq(S)
          /\ Len(back) = IF k + 1 <= n THEN n - (k + 1) + 1 ELSE 0
          /\ \A i \in 1 .. (n - (k + 1) + 1) : back[i] = s[(k + 1) + i - 1]
      BY <3>1, <3>2, SubSeqProperties
    <3> HIDE DEF back, n
    <3>4. /\ n - (k + 1) + 1 = n - k
          /\ (IF k + 1 <= n THEN n - (k + 1) + 1 ELSE 0) = n - k
          /\ \A i \in 1 .. (n - k) : (k + 1) + i - 1 = k + i
      BY <1>1, <2>5
    <3>5. QED
      BY <3>3, <3>4
  <2> HIDE DEF front, back
  <2>8. /\ r \in Seq(S) /\ Len(r) = n - 1
        /\ \A i \in 1 .. (n - 1) :
              r[i] = IF i <= k - 1 THEN s[i] ELSE s[i + 1]
    <3>1. /\ front \o back \in Seq(S)
          /\ Len(front \o back) = (k - 1) + (n - k)
          /\ \A i \in 1 .. ((k - 1) + (n - k)) :
                (front \o back)[i] =
                   IF i <= k - 1 THEN front[i] ELSE back[i - (k - 1)]
      <4>1. /\ front \o back \in Seq(S)
            /\ Len(front \o back) = Len(front) + Len(back)
            /\ \A i \in 1 .. (Len(front) + Len(back)) :
                  (front \o back)[i] =
                     IF i <= Len(front) THEN front[i]
                     ELSE back[i - Len(front)]
        BY <2>6, <2>7, ConcatProperties
      <4>2. Len(front) = k - 1 /\ Len(back) = n - k
        BY <2>6, <2>7
      <4> HIDE DEF n
      <4>3. QED
        BY <4>1, <4>2, Zenon
    <3>2. (k - 1) + (n - k) = n - 1
      BY <1>1, <2>5
    <3>3. ASSUME NEW i \in 1 .. (n - 1), i <= k - 1
          PROVE  front[i] = s[i]
      BY <1>1, <2>5, <2>6, <3>3
    <3>4. ASSUME NEW i \in 1 .. (n - 1), ~(i <= k - 1)
          PROVE  back[i - (k - 1)] = s[i + 1]
      <4>1. i - (k - 1) \in 1 .. (n - k) /\ k + (i - (k - 1)) = i + 1
        BY <1>1, <2>5, <3>4
      <4>2. QED
        BY <2>7, <4>1
    <3>5. QED
      BY <2>4, <3>1, <3>2, <3>3, <3>4
  <2> HIDE DEF r, n
  <2>9. DOMAIN r = 1 .. (n - 1)
    BY <2>8, LenProperties
  <2> DEFINE spot(i) == IF i <= k - 1 THEN i ELSE i + 1
  <2>10. \A i \in 1 .. (n - 1) :
            spot(i) \in (1 .. n) \ {k} /\ r[i] = s[spot(i)]
    BY <1>1, <2>5, <2>8
  <2>11. \A i, j \in 1 .. (n - 1) : spot(i) = spot(j) => i = j
    BY <1>1, <2>5
  <2>12. \A j \in (1 .. n) \ {k} : \E i \in 1 .. (n - 1) : spot(i) = j
    <3> SUFFICES ASSUME NEW j \in (1 .. n) \ {k}
                 PROVE  \E i \in 1 .. (n - 1) : spot(i) = j
      OBVIOUS
    <3>1. CASE j < k
      <4>1. j \in 1 .. (n - 1) /\ spot(j) = j
        BY <1>1, <2>5, <3>1
      <4>2. QED
        BY <4>1
    <3>2. CASE j > k
      <4>1. j - 1 \in 1 .. (n - 1) /\ spot(j - 1) = j
        BY <1>1, <2>5, <3>2
      <4>2. QED
        BY <4>1
    <3>3. QED
      BY <1>1, <2>5, <3>1, <3>2
  <2> HIDE DEF spot
  <2>13. Lines(r) = Lines(s) \ {u}
    <3>1. Lines(r) = {r[i] : i \in 1 .. (n - 1)}
      BY <2>8 DEF Lines
    <3>2. Lines(s) = {s[i] : i \in 1 .. n}
      BY DEF Lines, n
    <3>3. \A i \in 1 .. (n - 1) : r[i] \in Lines(s) /\ r[i] # u
      BY <1>2, <1>4, <2>10, <3>2
    <3>4. ASSUME NEW x \in Lines(s), x # u PROVE x \in Lines(r)
      <4>1. PICK j \in 1 .. n : s[j] = x
        BY <3>2
      <4>2. j \in (1 .. n) \ {k}
        BY <1>4, <3>4, <4>1
      <4>3. PICK i \in 1 .. (n - 1) : spot(i) = j
        BY <2>12, <4>2
      <4>4. r[i] = x
        BY <2>10, <4>1, <4>3
      <4>5. QED
        BY <3>1, <4>4
    <3>5. QED
      BY <3>1, <3>3, <3>4
  <2>14. IsInjective(r)
    <3>1. ASSUME NEW i \in 1 .. (n - 1), NEW j \in 1 .. (n - 1), r[i] = r[j]
          PROVE  i = j
      BY <1>2, <2>10, <2>11, <3>1
    <3>2. QED
      BY <2>9, <3>1 DEF IsInjective
  <2>15. QED
    BY <2>8, <2>13, <2>14
<1>5. QED
  BY <1>3, <1>4

(* A page bookmarked again moves to the end, and is there once.            *)
LEMMA AddedIs ==
    ASSUME NEW S, NEW s \in Seq(S), NEW u \in S, IsInjective(s)
    PROVE  /\ Added(s, u) \in Seq(S)
           /\ Lines(Added(s, u)) = Lines(s) \cup {u}
           /\ IsInjective(Added(s, u))
<1> DEFINE r == RemoveFirst(s, u)
<1>1. r \in Seq(S) /\ Lines(r) = Lines(s) \ {u} /\ IsInjective(r)
  BY Removed
<1> HIDE DEF r
<1>2. /\ Append(r, u) \in Seq(S)
      /\ Lines(Append(r, u)) = Lines(r) \cup {u}
      /\ u \notin Lines(r) => IsInjective(Append(r, u))
  BY <1>1, LinesAppended
<1>3. QED
  BY <1>1, <1>2 DEF Added, r

-----------------------------------------------------------------------------
(* The bookmarks.  A looper is in Save exactly when it holds the lock.     *)
LockInv ==
    /\ \A t \in Toolbars : at[Chrome(t)] = "save" <=> storeLock = Chrome(t)
    /\ storeLock # Nobody => \E t \in Toolbars : storeLock = Chrome(t)

(* What a star adds is a page, and in the list when it is saved.           *)
StarInv ==
    \A t \in Toolbars :
        /\ at[Chrome(t)] \in {"add", "save"} => url[t] \in Urls
        /\ at[Chrome(t)] = "save" => url[t] \in Lines(items)

(* The first n bookmarks of the list.                                      *)
FirstItems(n) == {items[i] : i \in 1 .. n}

(* During Save the file has lines of the written part of the list, and all *)
(* of them unless a write failed; what was kept is in the list until the   *)
(* file has it again.                                                      *)
SaveInv ==
    storeLock # Nobody =>
        /\ written <= Len(items)
        /\ Lines(file) \subseteq FirstItems(written)
        /\ ~harmed => /\ FirstItems(written) \subseteq Lines(file)
                      /\ kept \subseteq Lines(items)

(* Outside Save what was kept is in the file, and in the list once loaded. *)
RestInv ==
    ~harmed /\ storeLock = Nobody =>
        /\ kept \subseteq Lines(file)
        /\ loaded => kept \subseteq Lines(items)

StoreInv ==
    /\ StoreTypeOK
    /\ LockInv
    /\ StarInv
    /\ SaveInv
    /\ RestInv
    /\ IsInjective(items) /\ IsInjective(file)

(* Loopers are told apart, and none is nobody.                             *)
LEMMA LoopersAre ==
    ASSUME NEW t \in Toolbars
    PROVE  /\ Chrome(t) \in Looper /\ List(t) \in Looper
           /\ Chrome(t) # Nobody /\ List(t) # Nobody
           /\ \A v \in Toolbars : Chrome(v) = Chrome(t) => v = t
           /\ \A v \in Toolbars : Chrome(v) # List(t)
BY StoreAssumption DEF Chrome, List, Looper

(* A looper moves on, and the others stay where they are.                  *)
LEMMA AtIs ==
    ASSUME StoreTypeOK, NEW t \in Toolbars, NEW x \in Busy,
           at' = [at EXCEPT ![Chrome(t)] = x]
    PROVE  /\ at' \in [Looper -> Busy]
           /\ at'[Chrome(t)] = x
           /\ \A v \in Toolbars \ {t} : at'[Chrome(v)] = at[Chrome(v)]
<1>1. at \in [Looper -> Busy]
  BY DEF StoreTypeOK
<1>2. QED
  BY <1>1, LoopersAre

(* An empty file and an empty list.                                        *)
LEMMA NoLines ==
    /\ << >> \in Seq(Urls)
    /\ Lines(<< >>) = {}
    /\ IsInjective(<< >>)
<1>1. << >> \in Seq(Urls) /\ Len(<< >>) = 0
  BY EmptySeq
<1>2. DOMAIN << >> = 1 .. 0
  BY <1>1, LenProperties
<1>3. QED
  BY <1>1, <1>2 DEF Lines, IsInjective

(* EnsureLoaded outside Save: what was kept is in the list, unless the     *)
(* file could not be read.                                                 *)
LEMMA LoadedIs ==
    ASSUME StoreInv, storeLock = Nobody, NEW ok \in BOOLEAN
    PROVE  /\ ItemsLoaded(ok) \in Seq(Urls)
           /\ IsInjective(ItemsLoaded(ok))
           /\ ~(harmed \/ ReadFails(ok))
                => kept \subseteq Lines(ItemsLoaded(ok))
<1>1. CASE loaded
  BY <1>1 DEF ItemsLoaded, StoreInv, StoreTypeOK, RestInv
<1>2. CASE ~loaded /\ ok
  BY <1>2 DEF ItemsLoaded, StoreInv, StoreTypeOK, RestInv
<1>3. CASE ~loaded /\ ~ok
  <2>1. ItemsLoaded(ok) = << >>
    BY <1>3 DEF ItemsLoaded
  <2>2. ASSUME ~(harmed \/ ReadFails(ok)) PROVE kept = {}
    <3>1. file = << >> /\ ~harmed
      BY <1>3, <2>2 DEF ReadFails
    <3>2. kept \subseteq Lines(file)
      BY <3>1 DEF StoreInv, RestInv
    <3>3. QED
      BY <3>1, <3>2, NoLines
  <2>3. QED
    BY <2>1, <2>2, NoLines
<1>4. QED
  BY <1>1, <1>2, <1>3

(* The first state of a process, and of the user's settings.               *)
LEMMA InitStore == StoreInit => StoreInv
<1> SUFFICES ASSUME StoreInit PROVE StoreInv
  OBVIOUS
<1>1. /\ file = << >> /\ items = << >> /\ storeLock = Nobody
      /\ at = [l \in Looper |-> "idle"] /\ kept = {} /\ written = 0
      /\ loaded = FALSE /\ harmed = FALSE
      /\ listLock = [t \in Toolbars |-> Nobody]
      /\ lists = [t \in Toolbars |-> {}]
      /\ url = [t \in Toolbars |-> Nobody]
  BY DEF StoreInit
<1>2. \A t \in Toolbars : at[Chrome(t)] = "idle" /\ Chrome(t) # Nobody
  BY <1>1, LoopersAre
<1>3. StoreTypeOK
  <2>1. loaded \in BOOLEAN /\ harmed \in BOOLEAN
    BY <1>1, Zenon
  <2>2. file \in Seq(Urls) /\ items \in Seq(Urls)
    BY <1>1, NoLines, Zenon
  <2>3. at \in [Looper -> Busy]
    BY <1>1 DEF Busy
  <2>4. QED
    BY <1>1, <2>1, <2>2, <2>3 DEF StoreTypeOK
<1>4. LockInv /\ StarInv /\ SaveInv
  BY <1>1, <1>2 DEF LockInv, StarInv, SaveInv
<1>5. RestInv /\ IsInjective(items) /\ IsInjective(file)
  BY <1>1, NoLines DEF RestInv
<1>6. QED
  BY <1>3, <1>4, <1>5 DEF StoreInv

(* Steps that are not the bookmarks'.                                      *)
LEMMA StoreKept == ASSUME StoreInv, UNCHANGED storeVars PROVE StoreInv'
BY DEF StoreInv, StoreTypeOK, LockInv, StarInv, SaveInv, RestInv,
       FirstItems, storeVars

(* The buttons, the search field and the looper's way to the list.         *)
LEMMA StarKeeps ==
    ASSUME StoreInv, NEW t \in Toolbars, NEW u \in Urls, Star(t, u)
    PROVE  StoreInv'
<1>1. /\ at[Chrome(t)] = "idle"
      /\ at' = [at EXCEPT ![Chrome(t)] = "add"]
      /\ url' = [url EXCEPT ![t] = u]
      /\ UNCHANGED <<file, loaded, items, storeLock, listLock, lists,
                     written, kept, harmed>>
  BY DEF Star
<1>2. /\ at' \in [Looper -> Busy] /\ at'[Chrome(t)] = "add"
      /\ \A v \in Toolbars \ {t} : at'[Chrome(v)] = at[Chrome(v)]
  BY <1>1, AtIs DEF Busy, StoreInv
<1>3. /\ url' \in [Toolbars -> Urls \cup {Nobody}] /\ url'[t] = u
      /\ \A v \in Toolbars \ {t} : url'[v] = url[v]
  BY <1>1 DEF StoreInv, StoreTypeOK
<1>4. LockInv' /\ StarInv'
  BY <1>1, <1>2, <1>3 DEF StoreInv, LockInv, StarInv
<1>5. QED
  BY <1>1, <1>2, <1>3, <1>4
     DEF StoreInv, StoreTypeOK, SaveInv, RestInv, FirstItems

(* A looper of no star moves, and locks or unlocks a BookmarksWindow.      *)
LEMMA MoveKeeps ==
    ASSUME StoreInv, at' \in [Looper -> Busy],
           \A v \in Toolbars : \/ at'[Chrome(v)] = at[Chrome(v)]
                               \/ /\ at[Chrome(v)] \notin {"add", "save"}
                                  /\ at'[Chrome(v)] \notin {"add", "save"},
           listLock' \in [Toolbars -> Looper \cup {Nobody}],
           UNCHANGED <<file, loaded, items, storeLock, lists, url, written,
                       kept, harmed>>
    PROVE  StoreInv'
BY DEF StoreInv, StoreTypeOK, LockInv, StarInv, SaveInv, RestInv, FirstItems

(* ... with the list button, or on the way to the list after a star ...    *)
LEMMA ShowKeeps ==
    ASSUME StoreInv, NEW t \in Toolbars,
           ShowBookmarks(t) \/ Refresh(t) \/ ShowList(t)
    PROVE  StoreInv'
<1>1. PICK x \in {"read", "reread", "reopen", "idle"} :
         at' = [at EXCEPT ![Chrome(t)] = x]
  <2>1. CASE ShowBookmarks(t)
    BY <2>1 DEF ShowBookmarks
  <2>2. CASE Refresh(t)
    <3>1. at' = [at EXCEPT ![Chrome(t)] =
                    IF at[Chrome(t)] = "refresh" THEN "read" ELSE "reread"]
      BY <2>2 DEF Refresh
    <3>2. QED
      BY <3>1
  <2>3. CASE ShowList(t)
    BY <2>3 DEF ShowList
  <2>4. QED
    BY <2>1, <2>2, <2>3
<1>2. at[Chrome(t)] \notin {"add", "save"}
  BY DEF ShowBookmarks, Refresh, ShowList
<1>3. /\ at' \in [Looper -> Busy] /\ at'[Chrome(t)] = x
      /\ \A v \in Toolbars \ {t} : at'[Chrome(v)] = at[Chrome(v)]
  BY <1>1, AtIs DEF Busy, StoreInv
<1>4. listLock' \in [Toolbars -> Looper \cup {Nobody}]
  BY LoopersAre DEF ShowBookmarks, Refresh, ShowList, StoreInv, StoreTypeOK
<1>5. QED
  BY <1>2, <1>3, <1>4, MoveKeeps DEF ShowBookmarks, Refresh, ShowList

(* ... and with a key typed into the search field.                         *)
LEMMA SearchKeeps ==
    ASSUME StoreInv, NEW t \in Toolbars, Search(t) PROVE StoreInv'
<1>1. /\ at' = [at EXCEPT ![List(t)] = "read"]
      /\ listLock' = [listLock EXCEPT ![t] = List(t)]
  BY DEF Search
<1>2. /\ at' \in [Looper -> Busy]
      /\ \A v \in Toolbars : at'[Chrome(v)] = at[Chrome(v)]
  BY <1>1, LoopersAre DEF Busy, StoreInv, StoreTypeOK
<1>3. listLock' \in [Toolbars -> Looper \cup {Nobody}]
  BY <1>1, LoopersAre DEF StoreInv, StoreTypeOK
<1>4. QED
  BY <1>2, <1>3, MoveKeeps DEF Search

-----------------------------------------------------------------------------
(* What Add makes of the list, before any of it is written.                *)
LEMMA ListAdded ==
    ASSUME StoreInv, NEW t \in Toolbars, at[Chrome(t)] = "add",
           storeLock = Nobody, NEW ok \in BOOLEAN,
           items' = Added(ItemsLoaded(ok), url[t]),
           harmed' = (harmed \/ ReadFails(ok))
    PROVE  /\ items' \in Seq(Urls) /\ IsInjective(items')
           /\ url[t] \in Urls /\ url[t] \in Lines(items')
           /\ ~harmed' => kept \subseteq Lines(items')
           /\ harmed' \in BOOLEAN
<1>1. url[t] \in Urls
  BY DEF StoreInv, StarInv
<1>2. /\ ItemsLoaded(ok) \in Seq(Urls) /\ IsInjective(ItemsLoaded(ok))
      /\ ~(harmed \/ ReadFails(ok)) => kept \subseteq Lines(ItemsLoaded(ok))
  BY LoadedIs
<1>3. /\ items' \in Seq(Urls) /\ IsInjective(items')
      /\ Lines(items') = Lines(ItemsLoaded(ok)) \cup {url[t]}
  BY <1>1, <1>2, AddedIs
<1>4. harmed' \in BOOLEAN
  BY Zenon
<1>5. QED
  BY <1>1, <1>2, <1>3, <1>4

(* Save has erased the file: what was kept is in the list only.            *)
LEMMA AddBeginsKeeps ==
    ASSUME StoreInv, NEW t \in Toolbars, AddBegins(t) PROVE StoreInv'
<1>1. /\ at[Chrome(t)] = "add" /\ storeLock = Nobody
      /\ storeLock' = Chrome(t) /\ loaded' = TRUE
      /\ file' = << >> /\ written' = 0
      /\ at' = [at EXCEPT ![Chrome(t)] = "save"]
      /\ UNCHANGED <<listLock, lists, url, kept>>
  BY DEF AddBegins
<1>2. PICK ok \in BOOLEAN :
        /\ items' = Added(ItemsLoaded(ok), url[t])
        /\ harmed' = (harmed \/ ReadFails(ok))
  BY DEF AddBegins
<1>3. /\ items' \in Seq(Urls) /\ IsInjective(items')
      /\ url[t] \in Urls /\ url[t] \in Lines(items')
      /\ ~harmed' => kept \subseteq Lines(items')
      /\ harmed' \in BOOLEAN
  BY <1>1, <1>2, ListAdded
<1>4. /\ at' \in [Looper -> Busy] /\ at'[Chrome(t)] = "save"
      /\ \A v \in Toolbars \ {t} : at'[Chrome(v)] = at[Chrome(v)]
  BY <1>1, AtIs DEF Busy, StoreInv
<1>5. \A v \in Toolbars : at[Chrome(v)] # "save"
  BY <1>1, LoopersAre DEF StoreInv, LockInv
<1>6. StoreTypeOK'
  <2>1. storeLock' \in Looper \cup {Nobody}
    BY <1>1, LoopersAre
  <2>2. loaded' \in BOOLEAN /\ written' \in Nat
    BY <1>1
  <2>3. file' \in Seq(Urls)
    BY <1>1, NoLines
  <2>4. QED
    BY <1>1, <1>3, <1>4, <2>1, <2>2, <2>3 DEF StoreInv, StoreTypeOK
<1>7. LockInv'
  BY <1>1, <1>4, <1>5, LoopersAre DEF LockInv
<1>8. StarInv'
  BY <1>1, <1>3, <1>4, <1>5 DEF StoreInv, StarInv
<1>9. SaveInv'
  <2>1. Len(items') \in Nat
    BY <1>3, LenProperties
  <2>2. Lines(file') = {} /\ FirstItems(0)' = {}
    BY <1>1, NoLines DEF FirstItems
  <2>3. FirstItems(written)' = {}
    BY <1>1 DEF FirstItems
  <2>4. written' <= Len(items')
    BY <1>1, <2>1
  <2>5. QED
    BY <1>1, <1>3, <2>2, <2>3, <2>4 DEF SaveInv
<1>10. RestInv' /\ IsInjective(file')
  BY <1>1, NoLines, LoopersAre DEF RestInv
<1>11. QED
  BY <1>3, <1>6, <1>7, <1>8, <1>9, <1>10 DEF StoreInv

(* The rest of a press is no part of Save.                                 *)
LEMMA RestIs == \A t : Rest(t) \in Busy /\ Rest(t) \notin {"add", "save"}
BY DEF Rest, Busy

(* Save could not open the file, which stays as it was.                    *)
LEMMA SaveFailsKeeps ==
    ASSUME StoreInv, NEW t \in Toolbars, SaveFailsToOpen(t) PROVE StoreInv'
<1>1. /\ at[Chrome(t)] = "add" /\ storeLock = Nobody /\ loaded' = TRUE
      /\ at' = [at EXCEPT ![Chrome(t)] = Rest(t)]
      /\ UNCHANGED <<file, storeLock, listLock, lists, url, written, kept>>
  BY DEF SaveFailsToOpen
<1>2. PICK ok \in BOOLEAN :
        /\ items' = Added(ItemsLoaded(ok), url[t])
        /\ harmed' = (harmed \/ ReadFails(ok))
  BY DEF SaveFailsToOpen
<1>3. /\ items' \in Seq(Urls) /\ IsInjective(items')
      /\ ~harmed' => kept \subseteq Lines(items')
      /\ harmed' \in BOOLEAN
  BY <1>1, <1>2, ListAdded
<1>4. /\ at' \in [Looper -> Busy] /\ at'[Chrome(t)] = Rest(t)
      /\ \A v \in Toolbars \ {t} : at'[Chrome(v)] = at[Chrome(v)]
  BY <1>1, RestIs, AtIs DEF StoreInv
<1>5. \A v \in Toolbars : at[Chrome(v)] # "save"
  BY <1>1, LoopersAre DEF StoreInv, LockInv
<1>6. StoreTypeOK'
  <2>1. loaded' \in BOOLEAN
    BY <1>1
  <2>2. QED
    BY <1>1, <1>3, <1>4, <2>1 DEF StoreInv, StoreTypeOK
<1>7. LockInv' /\ StarInv'
  <2>1. \A v \in Toolbars : at'[Chrome(v)] # "save"
    BY <1>4, <1>5, RestIs
  <2>2. \A v \in Toolbars : at'[Chrome(v)] = "add" => at[Chrome(v)] = "add"
    BY <1>4, RestIs
  <2>3. QED
    BY <1>1, <2>1, <2>2, LoopersAre DEF StoreInv, LockInv, StarInv
<1>8. SaveInv'
  BY <1>1 DEF SaveInv
<1>9. RestInv'
  <2>1. ~harmed' => kept \subseteq Lines(file)
    BY <1>1, <1>2 DEF StoreInv, RestInv
  <2>2. QED
    BY <1>1, <1>3, <2>1 DEF RestInv
<1>10. QED
  BY <1>1, <1>3, <1>6, <1>7, <1>8, <1>9 DEF StoreInv

-----------------------------------------------------------------------------
(* Who is in Save, and what Save has written of the list.                  *)
LEMMA Saving ==
    ASSUME StoreInv, NEW t \in Toolbars, at[Chrome(t)] = "save"
    PROVE  /\ storeLock = Chrome(t) /\ storeLock # Nobody
           /\ url[t] \in Urls /\ url[t] \in Lines(items)
           /\ \A v \in Toolbars \ {t} : at[Chrome(v)] # "save"
           /\ written \in Nat /\ Len(items) \in Nat
           /\ written <= Len(items)
           /\ Lines(file) \subseteq FirstItems(written)
           /\ ~harmed => /\ FirstItems(written) \subseteq Lines(file)
                         /\ kept \subseteq Lines(items)
<1>1. storeLock = Chrome(t) /\ storeLock # Nobody
  BY LoopersAre DEF StoreInv, LockInv
<1>2. \A v \in Toolbars \ {t} : at[Chrome(v)] # "save"
  BY <1>1, LoopersAre DEF StoreInv, LockInv
<1>3. url[t] \in Urls /\ url[t] \in Lines(items)
  BY DEF StoreInv, StarInv
<1>4. written \in Nat /\ Len(items) \in Nat
  BY LenProperties DEF StoreInv, StoreTypeOK
<1>5. QED
  BY <1>1, <1>2, <1>3, <1>4 DEF StoreInv, SaveInv

(* The next line of Save is a page of the list that is not yet written.    *)
LEMMA NextItem ==
    ASSUME StoreInv, written < Len(items)
    PROVE  /\ items[written + 1] \in Urls
           /\ items[written + 1] \notin FirstItems(written)
           /\ FirstItems(written + 1)
                = FirstItems(written) \cup {items[written + 1]}
           /\ written + 1 \in Nat /\ written + 1 <= Len(items)
<1> DEFINE n == Len(items)
           w == written
<1>1. /\ n \in Nat /\ DOMAIN items = 1 .. n /\ w \in Nat /\ w < n
      /\ \A i \in 1 .. n : items[i] \in Urls
      /\ \A i, j \in DOMAIN items : items[i] = items[j] => i = j
  BY LenProperties, ElementOfSeq DEF StoreInv, StoreTypeOK, IsInjective
<1>2. FirstItems(w) = {items[i] : i \in 1 .. w}
      /\ FirstItems(w + 1) = {items[i] : i \in 1 .. (w + 1)}
  BY DEF FirstItems
<1> HIDE DEF n, w
<1>3. /\ w + 1 \in 1 .. n /\ w + 1 \in Nat /\ w + 1 <= n
      /\ 1 .. (w + 1) = (1 .. w) \cup {w + 1}
      /\ \A i \in 1 .. w : i \in 1 .. n /\ i # w + 1
  BY <1>1
<1>4. \A i \in 1 .. w : items[i] # items[w + 1]
  BY <1>1, <1>3
<1>5. FirstItems(w + 1) = FirstItems(w) \cup {items[w + 1]}
  BY <1>2, <1>3
<1>6. items[w + 1] \notin FirstItems(w)
  BY <1>2, <1>4
<1>7. QED
  BY <1>1, <1>3, <1>5, <1>6 DEF n, w

(* A line is written.                                                      *)
LEMMA SaveLineKeeps ==
    ASSUME StoreInv, NEW t \in Toolbars, SaveLine(t) PROVE StoreInv'
<1>1. /\ at[Chrome(t)] = "save" /\ written < Len(items)
      /\ file' = Append(file, items[written + 1])
      /\ written' = written + 1
      /\ UNCHANGED <<loaded, items, storeLock, listLock, lists, at, url,
                     kept, harmed>>
  BY DEF SaveLine
<1>2. /\ items[written + 1] \in Urls
      /\ items[written + 1] \notin FirstItems(written)
      /\ FirstItems(written + 1)
           = FirstItems(written) \cup {items[written + 1]}
      /\ written + 1 \in Nat /\ written + 1 <= Len(items)
  BY <1>1, NextItem
<1>3. /\ storeLock # Nobody
      /\ Lines(file) \subseteq FirstItems(written)
      /\ ~harmed => /\ FirstItems(written) \subseteq Lines(file)
                    /\ kept \subseteq Lines(items)
  BY <1>1, Saving
<1>4. file \in Seq(Urls) /\ IsInjective(file)
  BY DEF StoreInv, StoreTypeOK
<1>5. /\ file' \in Seq(Urls)
      /\ Lines(file') = Lines(file) \cup {items[written + 1]}
      /\ IsInjective(file')
  BY <1>1, <1>2, <1>3, <1>4, LinesAppended
<1>6. StoreTypeOK'
  BY <1>1, <1>2, <1>5 DEF StoreInv, StoreTypeOK
<1>7. LockInv' /\ StarInv'
  BY <1>1 DEF StoreInv, LockInv, StarInv
<1>8. FirstItems(written)' = FirstItems(written) \cup {items[written + 1]}
  BY <1>1, <1>2 DEF FirstItems
<1>9. SaveInv'
  BY <1>1, <1>2, <1>3, <1>5, <1>8 DEF SaveInv
<1>10. RestInv'
  BY <1>1, <1>3 DEF RestInv
<1>11. QED
  BY <1>1, <1>5, <1>6, <1>7, <1>9, <1>10 DEF StoreInv

(* A line is lost: the file has fewer of them, and harm is done.           *)
LEMMA SaveLineFailsKeeps ==
    ASSUME StoreInv, NEW t \in Toolbars, SaveLineFails(t) PROVE StoreInv'
<1>1. /\ at[Chrome(t)] = "save" /\ written < Len(items)
      /\ written' = written + 1 /\ harmed' = TRUE
      /\ UNCHANGED <<file, loaded, items, storeLock, listLock, lists, at,
                     url, kept>>
  BY DEF SaveLineFails
<1>2. /\ FirstItems(written + 1)
           = FirstItems(written) \cup {items[written + 1]}
      /\ written + 1 \in Nat /\ written + 1 <= Len(items)
  BY <1>1, NextItem
<1>3. Lines(file) \subseteq FirstItems(written)
  BY <1>1, Saving
<1>4. harmed' \in BOOLEAN
  BY <1>1, Zenon
<1>5. StoreTypeOK' /\ LockInv' /\ StarInv'
  BY <1>1, <1>2, <1>4 DEF StoreInv, StoreTypeOK, LockInv, StarInv
<1>6. FirstItems(written)' = FirstItems(written) \cup {items[written + 1]}
  BY <1>1, <1>2 DEF FirstItems
<1>7. SaveInv' /\ RestInv'
  BY <1>1, <1>2, <1>3, <1>6 DEF SaveInv, RestInv
<1>8. QED
  BY <1>1, <1>5, <1>7 DEF StoreInv

(* All is written: the file has every line of the list, and so all that    *)
(* was ever kept and what the star has just added.                         *)
LEMMA AddEndsKeeps ==
    ASSUME StoreInv, NEW t \in Toolbars, AddEnds(t) PROVE StoreInv'
<1>1. /\ at[Chrome(t)] = "save" /\ written = Len(items)
      /\ kept' = kept \cup {url[t]} /\ storeLock' = Nobody
      /\ at' = [at EXCEPT ![Chrome(t)] = Rest(t)]
      /\ UNCHANGED <<file, loaded, items, listLock, lists, url, written,
                     harmed>>
  BY DEF AddEnds
<1>2. /\ url[t] \in Urls /\ url[t] \in Lines(items)
      /\ \A v \in Toolbars \ {t} : at[Chrome(v)] # "save"
      /\ ~harmed => /\ FirstItems(written) \subseteq Lines(file)
                    /\ kept \subseteq Lines(items)
  BY <1>1, Saving
<1>3. FirstItems(written) = Lines(items)
  BY <1>1 DEF FirstItems, Lines
<1>4. /\ at' \in [Looper -> Busy] /\ at'[Chrome(t)] = Rest(t)
      /\ \A v \in Toolbars \ {t} : at'[Chrome(v)] = at[Chrome(v)]
  BY <1>1, RestIs, AtIs DEF StoreInv
<1>5. StoreTypeOK'
  BY <1>1, <1>2, <1>4 DEF StoreInv, StoreTypeOK
<1>6. \A v \in Toolbars : at'[Chrome(v)] # "save"
  BY <1>2, <1>4, RestIs
<1>7. \A v \in Toolbars : at'[Chrome(v)] = "add" => at[Chrome(v)] = "add"
  BY <1>4, RestIs
<1>8. LockInv' /\ StarInv'
  BY <1>1, <1>6, <1>7, LoopersAre DEF StoreInv, LockInv, StarInv
<1>9. SaveInv' /\ RestInv'
  BY <1>1, <1>2, <1>3 DEF SaveInv, RestInv
<1>10. QED
  BY <1>1, <1>5, <1>8, <1>9 DEF StoreInv

(* The list is read and shown, on either looper.                           *)
LEMMA RebuildKeeps ==
    ASSUME StoreInv, NEW t \in Toolbars, NEW l \in {Chrome(t), List(t)},
           Rebuild(t, l)
    PROVE  StoreInv'
<1>1. PICK ok \in BOOLEAN :
         /\ items' = ItemsLoaded(ok)
         /\ lists' = [lists EXCEPT ![t] = {Lines(ItemsLoaded(ok))}]
         /\ harmed' = (harmed \/ ReadFails(ok))
  BY DEF Rebuild
<1>2. /\ at[l] \in {"read", "reread"} /\ storeLock \in {Nobody, l}
      /\ loaded' = TRUE /\ storeLock' = Nobody
      /\ listLock' = [listLock EXCEPT ![t] = IF @ = l THEN Nobody ELSE @]
      /\ at' = [at EXCEPT ![l] = IF @ = "read" THEN "idle" ELSE "show"]
      /\ UNCHANGED <<file, url, written, kept>>
  BY DEF Rebuild
<1>3. storeLock = Nobody
  <2>1. CASE l = Chrome(t)
    BY <1>2, <2>1, LoopersAre DEF StoreInv, LockInv
  <2>2. CASE l = List(t)
    BY <1>2, <2>2, LoopersAre DEF StoreInv, LockInv
  <2>3. QED
    BY <2>1, <2>2
<1>4. /\ items' \in Seq(Urls) /\ IsInjective(items')
      /\ ~harmed' => kept \subseteq Lines(items')
  BY <1>1, <1>3, LoadedIs
<1>5. /\ at' \in [Looper -> Busy]
      /\ \A v \in Toolbars : \/ at'[Chrome(v)] = at[Chrome(v)]
                             \/ at'[Chrome(v)] \in {"idle", "show"}
  BY <1>2, LoopersAre DEF Busy, StoreInv, StoreTypeOK
<1>6. \A v \in Toolbars : at[Chrome(v)] # "save" /\ at'[Chrome(v)] # "save"
  BY <1>3, <1>5, LoopersAre DEF StoreInv, LockInv
<1>7. StoreTypeOK'
  <2>1. harmed' \in BOOLEAN
    BY <1>1, Zenon
  <2>2. loaded' \in BOOLEAN /\ storeLock' \in Looper \cup {Nobody}
    BY <1>2
  <2>3. Lines(items') \subseteq Urls
    <3>1. \A i \in 1 .. Len(items') : items'[i] \in Urls
      BY <1>4, ElementOfSeq
    <3>2. QED
      BY <3>1 DEF Lines
  <2>4. lists' = [lists EXCEPT ![t] = {Lines(items')}]
    BY <1>1
  <2>5. lists' \in [Toolbars -> SUBSET SUBSET Urls]
    BY <2>3, <2>4 DEF StoreInv, StoreTypeOK
  <2>6. listLock' \in [Toolbars -> Looper \cup {Nobody}]
    BY <1>2 DEF StoreInv, StoreTypeOK
  <2>7. QED
    BY <1>2, <1>4, <1>5, <2>1, <2>2, <2>5, <2>6 DEF StoreInv, StoreTypeOK
<1>8. LockInv' /\ StarInv'
  BY <1>2, <1>3, <1>5, <1>6, LoopersAre DEF StoreInv, LockInv, StarInv
<1>9. SaveInv'
  BY <1>2 DEF SaveInv
<1>10. RestInv'
  <2>1. ~harmed' => kept \subseteq Lines(file)
    BY <1>1, <1>3 DEF StoreInv, RestInv
  <2>2. QED
    BY <1>2, <1>4, <2>1 DEF RestInv
<1>11. QED
  BY <1>2, <1>4, <1>7, <1>8, <1>9, <1>10 DEF StoreInv

(* The process dies: the file stays, and a Save cut short is harm done.    *)
LEMMA StoreDiesKeeps ==
    ASSUME StoreInv, StoreDies PROVE StoreInv'
<1>1. /\ harmed' = (harmed \/ \E t \in Toolbars : at[Chrome(t)] = "save")
      /\ loaded' = FALSE /\ items' = << >> /\ storeLock' = Nobody
      /\ listLock' = [t \in Toolbars |-> Nobody]
      /\ lists' = [t \in Toolbars |-> {}]
      /\ at' = [l \in Looper |-> "idle"]
      /\ url' = [t \in Toolbars |-> Nobody]
      /\ written' = 0
      /\ UNCHANGED <<file, kept>>
  BY DEF StoreDies
<1>2. \A v \in Toolbars : at'[Chrome(v)] = "idle" /\ Chrome(v) # Nobody
  BY <1>1, LoopersAre
<1>3. StoreTypeOK'
  <2>1. loaded' \in BOOLEAN /\ harmed' \in BOOLEAN
    BY <1>1, Zenon
  <2>2. items' \in Seq(Urls)
    BY <1>1, NoLines, Zenon
  <2>3. at' \in [Looper -> Busy]
    BY <1>1 DEF Busy
  <2>4. QED
    BY <1>1, <2>1, <2>2, <2>3 DEF StoreInv, StoreTypeOK
<1>4. LockInv' /\ StarInv' /\ SaveInv'
  BY <1>1, <1>2 DEF LockInv, StarInv, SaveInv
<1>5. RestInv'
  <2>1. ASSUME ~harmed' PROVE kept \subseteq Lines(file)
    <3>1. ~harmed /\ \A t \in Toolbars : at[Chrome(t)] # "save"
      BY <1>1, <2>1
    <3>2. storeLock = Nobody
      BY <3>1 DEF StoreInv, LockInv
    <3>3. QED
      BY <3>1, <3>2 DEF StoreInv, RestInv
  <2>2. QED
    BY <1>1, <2>1 DEF RestInv
<1>6. IsInjective(items') /\ IsInjective(file')
  BY <1>1, NoLines DEF StoreInv
<1>7. QED
  BY <1>3, <1>4, <1>5, <1>6 DEF StoreInv

-----------------------------------------------------------------------------
(* Every step of the process keeps the bookmarks' invariant.               *)
LEMMA StoreStep ==
    ASSUME StoreInv, ShellTypeOK, [Next]_vars
    PROVE  StoreInv'
<1>1. CASE UNCHANGED storeVars
  BY <1>1, StoreKept
<1>2. CASE StoreClick
  <2>1. PICK w \in Windows :
           \/ address[w] # NoPage /\ Star(w, address[w])
           \/ ShowBookmarks(w)
           \/ Search(w)
    BY <1>2 DEF StoreClick
  <2>2. w \in Toolbars /\ (address[w] # NoPage => address[w] \in Urls)
    BY BrowserAssumption DEF ShellTypeOK
  <2>3. QED
    BY <2>1, <2>2, StarKeeps, ShowKeeps, SearchKeeps
<1>3. ASSUME NEW w \in Windows, ChromeStep(w) PROVE StoreInv'
  <2>1. w \in Toolbars
    BY BrowserAssumption
  <2>2. QED
    BY <1>3, <2>1, AddBeginsKeeps, SaveFailsKeeps, SaveLineKeeps,
       SaveLineFailsKeeps, AddEndsKeeps, ShowKeeps, RebuildKeeps
       DEF ChromeStep
<1>4. ASSUME NEW w \in Windows, ListStep(w) PROVE StoreInv'
  BY <1>4, BrowserAssumption, RebuildKeeps DEF ListStep
<1>5. CASE Die
  BY <1>5, StoreDiesKeeps DEF Die
<1>6. CASE \/ OpenWindow \/ UserInput \/ SetBounds \/ Report \/ CloseClick
           \/ QuitWindow \/ Viz \/ Load \/ InstallClick
           \/ Copy \/ Watch \/ Ui \/ UNCHANGED vars
  <2>1. UNCHANGED storeVars
    BY <1>6 DEF OpenWindow, UserInput, SetBounds, Report, CloseClick,
                QuitWindow, Viz, Load, InstallClick, Copy, Watch, Ui,
                WindowTask, InstallTask, ClipboardTask, Manifest, vars
  <2>2. QED
    BY <2>1, StoreKept
<1>7. QED
  BY <1>2, <1>3, <1>4, <1>5, <1>6 DEF Next

(* In every reachable state.                                               *)
LEMMA StoreAlways == Spec => []StoreInv
<1>1. Init => StoreInv
  BY InitStore DEF Init
<1>2. IInv /\ StoreInv /\ [Next]_vars => StoreInv'
  BY StoreStep DEF IInv, ShellInv
<1>3. QED
  BY <1>1, <1>2, Inductive, PTL DEF Spec

(* A bookmark that was saved to the end is in the file whenever nobody is  *)
(* saving, as long as no Save was cut short and no read failed, across     *)
(* deaths and restarts and the stars of any number of windows; and no page *)
(* is listed twice.                                                        *)
THEOREM BookmarksKept == Spec => []KeptSurvive
<1>1. StoreInv => KeptSurvive
  BY DEF StoreInv, RestInv, KeptSurvive
<1>2. QED
  BY <1>1, StoreAlways, PTL

(* What viz gives and whether there are toolbars is settled at the start.  *)
LEMMA SettledAtStart == Spec => [](given \in BOOLEAN /\ toolbar \in BOOLEAN)
<1>1. Init => given \in BOOLEAN /\ toolbar \in BOOLEAN
  BY Zenon DEF Init, WindowInit
<1>2. ASSUME IInv, given \in BOOLEAN, toolbar \in BOOLEAN, [Next]_vars
      PROVE  (given \in BOOLEAN /\ toolbar \in BOOLEAN)'
  <2>1. given' = given /\ toolbar' = toolbar
    BY <1>2, LifeSteps DEF IInv, Env
  <2>2. QED
    BY <1>2, <2>1, Zenon
<1>3. QED
  BY <1>1, <1>2, Inductive, PTL DEF Spec

(* Every part of the process is as its C++ types allow: windows and tasks, *)
(* shells, bookmarks, clipboard.                                           *)
THEOREM TypeCorrect == Spec => []TypeOK
<1>1. ASSUME IInv, StoreInv, given \in BOOLEAN, toolbar \in BOOLEAN
      PROVE  TypeOK
  <2>1. WindowTypeOK
    BY <1>1 DEF IInv, WindowInv, WindowTypes, Natives, FrameInv, WindowTypeOK
  <2>2. QED
    BY <1>1, <2>1 DEF IInv, ShellInv, StoreInv, ClipInv, TypeOK
<1>2. QED
  BY <1>1, Inductive, StoreAlways, SettledAtStart, PTL

=============================================================================

------------------------- MODULE HaikuWindow_proof -------------------------
(***************************************************************************)
(* Lemmas about HaikuWindow, for any number of windows and any heights and *)
(* places: what its actions keep true of the sizes that are on their way   *)
(* between the loopers and the UI thread.  HaikuBrowser_proof puts them    *)
(* together with the other parts of the process.                           *)
(***************************************************************************)
EXTENDS HaikuWindow, TLAPS

Natives == [at : Int, height : Int, inset : {0, Inset}, view : Int,
            notices : Seq(Int)]

WindowTypes ==
    /\ life \in [Windows -> {"none", "open", "quitting", "gone"}]
    /\ native \in [Windows -> Natives]
    /\ bounds \in [Windows -> Rects]
    /\ known \in [Windows -> SUBSET Rects]
    /\ tasks \in Seq(Tasks)
    /\ moved \in [Windows -> BOOLEAN]

(* The content view's size was asked for, and so was every size its looper *)
(* has to report.                                                          *)
Sized(w) ==
    /\ native[w].height = native[w].view + native[w].inset
    /\ native[w].view \in Heights
    /\ \A i \in 1 .. Len(native[w].notices) : native[w].notices[i] \in Heights

(* Task i is the report of w that is handled last.                         *)
IsReport(i, w) == tasks[i].kind = "bounds" /\ tasks[i].win = w

LastReport(i, w) ==
    /\ IsReport(i, w)
    /\ \A j \in i + 1 .. Len(tasks) : ~IsReport(j, w)

Unreported(w) == \A i \in 1 .. Len(tasks) : ~IsReport(i, w)

(* Whatever is told last, a notice, a task or bounds_, is the truth.       *)
SizeComes(w) ==
    /\ native[w].notices # << >> =>
          native[w].notices[Len(native[w].notices)] = native[w].view
    /\ native[w].notices = << >> =>
          /\ \A i \in 1 .. Len(tasks) :
                LastReport(i, w) => tasks[i].rect.height = native[w].view
          /\ Unreported(w) => bounds[w].height = native[w].view

PlaceComes(w) ==
    ~moved[w] =>
        /\ \A i \in 1 .. Len(tasks) :
              LastReport(i, w) => tasks[i].rect.at = native[w].at
        /\ Unreported(w) => bounds[w].at = native[w].at

ReportsAsked ==
    \A i \in 1 .. Len(tasks) :
        tasks[i].kind = "bounds" => tasks[i].rect.height \in Heights

(* What is so of a window in each part of its life.                        *)
Lives(w) ==
    /\ LooperRuns(w) => Sized(w)
    /\ life[w] = "open" =>
          /\ known[w] = {bounds[w]}
          /\ bounds[w].height \in Heights
          /\ SizeComes(w)
          /\ PlaceComes(w)
    /\ life[w] # "open" => known[w] = {}
    /\ life[w] = "none" => Unreported(w)

WindowInv ==
    /\ WindowTypes
    /\ ReportsAsked
    /\ \A w \in Windows : Lives(w)

nativeVars == <<life, native, bounds, known, tasks, moved>>

-----------------------------------------------------------------------------
(* Heights are numbers.                                                    *)
LEMMA HeightsAre == Heights \subseteq Int
BY WindowAssumption

(* The two ways the queue of tasks moves.                                  *)
LEMMA AppendIs ==
    ASSUME NEW T, NEW s \in Seq(T), NEW e \in T
    PROVE  /\ Append(s, e) \in Seq(T)
           /\ Len(Append(s, e)) = Len(s) + 1
           /\ \A i \in 1 .. Len(s) : Append(s, e)[i] = s[i]
           /\ Append(s, e)[Len(s) + 1] = e
           /\ Append(s, e) # << >>
OBVIOUS

(* The first task is taken.                                                *)
LEMMA TailIs ==
    ASSUME NEW T, NEW s \in Seq(T), s # << >>
    PROVE  /\ Tail(s) \in Seq(T)
           /\ Len(Tail(s)) = Len(s) - 1
           /\ Len(s) \in Nat \ {0}
           /\ Head(s) = s[1]
           /\ Head(s) \in T
           /\ \A i \in 1 .. Len(s) - 1 : Tail(s)[i] = s[i + 1]
OBVIOUS

(* An empty sequence.                                                      *)
LEMMA EmptyIs ==
    ASSUME NEW T, NEW s \in Seq(T)
    PROVE  /\ s = << >> <=> Len(s) = 0
           /\ Len(s) \in Nat
OBVIOUS

(* No window is open.                                                      *)
LEMMA InitWindow == WindowInit => WindowInv
<1> SUFFICES ASSUME WindowInit PROVE WindowInv
  OBVIOUS
<1>1. WindowTypes
  BY DEF WindowInit, WindowTypes, Natives, Rects, NoNative, NoRect, Rect
<1>2. tasks = << >> /\ \A w \in Windows : life[w] = "none" /\ known[w] = {}
  BY DEF WindowInit
<1>3. QED
  BY <1>1, <1>2 DEF WindowInv, ReportsAsked, Lives, LooperRuns, Unreported

(* A task that is no report is put at the end: nothing changes.            *)
LEMMA PostKeeps ==
    ASSUME WindowInv, NEW t \in Tasks, t.kind # "bounds",
           tasks' = Append(tasks, t),
           UNCHANGED <<life, native, bounds, known, moved>>
    PROVE  WindowInv'
<1>1. /\ tasks' \in Seq(Tasks) /\ Len(tasks') = Len(tasks) + 1
      /\ \A i \in 1 .. Len(tasks) : tasks'[i] = tasks[i]
      /\ tasks'[Len(tasks) + 1] = t
      /\ Len(tasks) \in Nat
  BY AppendIs DEF WindowInv, WindowTypes
<1>2. WindowTypes' /\ ReportsAsked'
  BY <1>1 DEF WindowInv, WindowTypes, ReportsAsked
<1>3. ASSUME NEW w \in Windows
      PROVE  /\ Unreported(w)' <=> Unreported(w)
             /\ \A i \in 1 .. Len(tasks') : LastReport(i, w)' =>
                    i \in 1 .. Len(tasks) /\ LastReport(i, w)
  BY <1>1 DEF Unreported, LastReport, IsReport
<1>4. \A w \in Windows : Lives(w)'
  BY <1>1, <1>3
     DEF WindowInv, Lives, LooperRuns, Sized, SizeComes, PlaceComes
<1>5. QED
  BY <1>2, <1>4 DEF WindowInv

(* A task that is no report is done: the others move up.                   *)
LEMMA ShiftIs ==
    ASSUME tasks \in Seq(Tasks), tasks # << >>,
           Head(tasks).kind # "bounds", tasks' = Tail(tasks),
           NEW w
    PROVE  /\ Unreported(w)' <=> Unreported(w)
           /\ \A i \in 1 .. Len(tasks') : LastReport(i, w)' =>
                  i + 1 \in 1 .. Len(tasks) /\ LastReport(i + 1, w)
<1>1. /\ Len(tasks') = Len(tasks) - 1
      /\ \A i \in 1 .. Len(tasks') : tasks'[i] = tasks[i + 1]
      /\ Len(tasks) \in Nat \ {0}
      /\ tasks[1].kind # "bounds"
  BY TailIs
<1>2. ASSUME Unreported(w)', NEW i \in 1 .. Len(tasks)
      PROVE  ~IsReport(i, w)
  <2>1. CASE i = 1
    BY <1>1, <2>1 DEF IsReport
  <2>2. CASE i # 1
    <3>1. i - 1 \in 1 .. Len(tasks') /\ tasks'[i - 1] = tasks[i]
      BY <1>1, <2>2
    <3>2. QED
      BY <1>2, <3>1 DEF Unreported, IsReport
  <2>3. QED
    BY <2>1, <2>2
<1>3. ASSUME NEW i \in 1 .. Len(tasks'), LastReport(i, w)',
             NEW j \in i + 2 .. Len(tasks)
      PROVE  ~IsReport(j, w)
  <2>1. j - 1 \in i + 1 .. Len(tasks') /\ tasks'[j - 1] = tasks[j]
    BY <1>1
  <2>2. QED
    BY <1>3, <2>1 DEF LastReport, IsReport
<1>4. \A i \in 1 .. Len(tasks') : IsReport(i, w)' <=> IsReport(i + 1, w)
  BY <1>1 DEF IsReport
<1>5. Unreported(w) => Unreported(w)'
  BY <1>1, <1>4 DEF Unreported
<1>6. ASSUME NEW i \in 1 .. Len(tasks'), LastReport(i, w)'
      PROVE  i + 1 \in 1 .. Len(tasks) /\ LastReport(i + 1, w)
  BY <1>1, <1>3, <1>4, <1>6 DEF LastReport
<1>7. QED
  BY <1>2, <1>5, <1>6 DEF Unreported

(* A task that is no report is done.                                       *)
LEMMA DropKeeps ==
    ASSUME WindowInv, tasks # << >>, Head(tasks).kind # "bounds",
           tasks' = Tail(tasks),
           UNCHANGED <<life, native, bounds, known, moved>>
    PROVE  WindowInv'
<1>1. /\ tasks' \in Seq(Tasks) /\ Len(tasks') = Len(tasks) - 1
      /\ \A i \in 1 .. Len(tasks') : tasks'[i] = tasks[i + 1]
      /\ Len(tasks) \in Nat \ {0}
  BY TailIs DEF WindowInv, WindowTypes
<1>2. WindowTypes' /\ ReportsAsked'
  BY <1>1 DEF WindowInv, WindowTypes, ReportsAsked
<1>3. \A w \in Windows : Lives(w)'
  BY <1>1, ShiftIs
     DEF WindowInv, WindowTypes, Lives, LooperRuns, Sized, SizeComes,
         PlaceComes
<1>4. QED
  BY <1>2, <1>3 DEF WindowInv

(* Nothing of this is about the canvas or the frame.                       *)
LEMMA NativeKept ==
    ASSUME WindowInv, UNCHANGED nativeVars
    PROVE  WindowInv'
BY DEF WindowInv, WindowTypes, ReportsAsked, Lives, LooperRuns, Sized,
       SizeComes, PlaceComes, Unreported, LastReport, IsReport, nativeVars

-----------------------------------------------------------------------------
(* ResizeTo leaves the last notice true.                                   *)
LEMMA ResizedIs ==
    ASSUME NEW n \in Natives, NEW h \in Heights,
           n.height = n.view + n.inset,
           \A i \in 1 .. Len(n.notices) : n.notices[i] \in Heights
    PROVE  LET r == Resized(n, h + n.inset)
           IN  /\ r \in Natives
               /\ r.at = n.at /\ r.inset = n.inset
               /\ r.view = h /\ r.height = h + n.inset
               /\ \A i \in 1 .. Len(r.notices) : r.notices[i] \in Heights
               /\ n.view = h => r.notices = n.notices
               /\ n.view # h => /\ r.notices # << >>
                                 /\ r.notices[Len(r.notices)] = h
<1> DEFINE r == Resized(n, h + n.inset)
<1>1. /\ h \in Int /\ n.view + (h + n.inset) - n.height = h
      /\ n.notices \in Seq(Int) /\ h + n.inset \in Int
      /\ n.at \in Int /\ n.inset \in {0, Inset}
  BY HeightsAre, WindowAssumption DEF Natives
<1>2. r = [n EXCEPT !.height = h + n.inset, !.view = h,
                    !.notices = IF h = n.view THEN @ ELSE Append(@, h)]
  BY <1>1 DEF Resized
<1>3. CASE h = n.view
  <2>1. r = [n EXCEPT !.height = h + n.inset, !.view = h]
    BY <1>2, <1>3 DEF Natives
  <2>2. r \in Natives /\ r.at = n.at /\ r.inset = n.inset /\ r.view = h
        /\ r.height = h + n.inset /\ r.notices = n.notices
    BY <1>1, <2>1 DEF Natives
  <2>3. QED
    BY <1>3, <2>2
<1>4. CASE h # n.view
  <2> DEFINE s == Append(n.notices, h)
  <2>1. /\ s \in Seq(Int)
        /\ Len(s) = Len(n.notices) + 1
        /\ \A i \in 1 .. Len(n.notices) : s[i] = n.notices[i]
        /\ s[Len(n.notices) + 1] = h
        /\ s # << >>
        /\ Len(n.notices) \in Nat
    <3> DEFINE t == n.notices
    <3>1. t \in Seq(Int) /\ h \in Int
      BY <1>1 DEF Natives
    <3> HIDE DEF t, s
    <3>2. s = Append(t, h)
      BY DEF s, t
    <3>3. /\ s \in Seq(Int)
          /\ Len(s) = Len(t) + 1
          /\ \A i \in 1 .. Len(t) : s[i] = t[i]
          /\ s[Len(t) + 1] = h
          /\ s # << >>
      BY <3>1, <3>2, AppendIs, SMTT(30)
    <3>4. Len(t) \in Nat
      BY <3>1
    <3>5. QED
      BY <3>3, <3>4 DEF t
  <2>2. r = [n EXCEPT !.height = h + n.inset, !.view = h, !.notices = s]
    BY <1>2, <1>4 DEF Natives
  <2> HIDE DEF s
  <2>3. r \in Natives /\ r.at = n.at /\ r.inset = n.inset /\ r.view = h
        /\ r.height = h + n.inset /\ r.notices = s
    BY <1>1, <2>1, <2>2 DEF Natives
  <2>4. ASSUME NEW i \in 1 .. Len(s)
        PROVE  s[i] \in Heights
    <3>1. i \in 1 .. Len(n.notices) \/ i = Len(n.notices) + 1
      <4> DEFINE m == Len(n.notices)
      <4>1. m \in Nat /\ i \in 1 .. m + 1
        BY <2>1
      <4> HIDE DEF m
      <4>2. i \in 1 .. m \/ i = m + 1
        BY <4>1
      <4>3. QED
        BY <4>2 DEF m
    <3>2. CASE i \in 1 .. Len(n.notices)
      <4>1. s[i] = n.notices[i]
        BY <2>1, <3>2, Zenon
      <4>2. n.notices[i] \in Heights
        BY <3>2, Zenon
      <4>3. QED
        BY <4>1, <4>2, Zenon
    <3>3. CASE i = Len(n.notices) + 1
      BY <2>1, <3>3, Zenon
    <3>4. QED
      BY <3>1, <3>2, <3>3, Zenon
  <2>5. s[Len(s)] = h
    BY <2>1, Zenon
  <2>6. QED
    BY <1>4, <2>1, <2>3, <2>4, <2>5, Zenon
<1>5. QED
  BY <1>3, <1>4

(* A window is opened: its last notice tells the size it ends with.        *)
LEMMA OpenKeeps ==
    ASSUME WindowInv, NEW w \in Windows, Open(w)
    PROVE  WindowInv'
<1>1. PICK q \in Places, h \in Heights, k \in Heights :
        LET sized == Resized(Attached(0, h), k)
            i == IF toolbar THEN Inset ELSE 0
        IN  /\ native' = [native EXCEPT ![w] =
                              [SetTopInset(sized, k, i) EXCEPT !.at = q]]
            /\ bounds' = [bounds EXCEPT ![w] = Rect(0, k)]
            /\ known' = [known EXCEPT ![w] = {Rect(0, k)}]
  BY DEF Open
<1> DEFINE sized == Resized(Attached(0, h), k)
           i == IF toolbar THEN Inset ELSE 0
           n == [SetTopInset(sized, k, i) EXCEPT !.at = q]
<1>2. /\ life[w] = "none" /\ life' = [life EXCEPT ![w] = "open"]
      /\ moved' = [moved EXCEPT ![w] = TRUE] /\ tasks' = tasks
  BY DEF Open
<1>3. i \in {0, Inset} /\ i \in Int /\ q \in Int /\ k \in Int /\ h \in Int
  BY WindowAssumption, HeightsAre
<1>4. Attached(0, h) \in Natives /\ Attached(0, h).inset = 0
      /\ Attached(0, h).height = h /\ Attached(0, h).view = h
      /\ Attached(0, h).notices = <<h>>
  BY <1>3 DEF Attached, Natives
<1>5. /\ sized \in Natives /\ sized.view = k
      /\ \A j \in 1 .. Len(sized.notices) : sized.notices[j] \in Heights
      /\ sized.notices # << >>
      /\ sized.notices[Len(sized.notices)] = k
  <2>1. k + Attached(0, h).inset = k
    BY <1>3, <1>4
  <2>2. /\ Len(<<h>>) = 1 /\ <<h>>[1] = h /\ <<h>> # << >>
        /\ \A j \in 1 .. Len(<<h>>) : <<h>>[j] \in Heights
    OBVIOUS
  <2>3. Attached(0, h).height = Attached(0, h).view + Attached(0, h).inset
    BY <1>3, <1>4
  <2>4. \A j \in 1 .. Len(Attached(0, h).notices) :
            Attached(0, h).notices[j] \in Heights
    BY <1>4, <2>2, Zenon
  <2> DEFINE a == Attached(0, h)
             r == Resized(a, k + a.inset)
  <2>5. a \in Natives /\ a.height = a.view + a.inset
    BY <1>4, <2>3, Zenon
  <2>6. /\ r \in Natives /\ r.view = k
        /\ \A j \in 1 .. Len(r.notices) : r.notices[j] \in Heights
        /\ a.view = k => r.notices = a.notices
        /\ a.view # k => /\ r.notices # << >>
                         /\ r.notices[Len(r.notices)] = k
    BY <2>4, <2>5, ResizedIs, Zenon
  <2>7. r = sized
    BY <2>1, Zenon
  <2> HIDE DEF r
  <2>8. /\ r.notices # << >>
        /\ r.notices[Len(r.notices)] = k
    <3>1. CASE h = k
      <4>1. r.notices = <<h>>
        BY <1>4, <2>6, <3>1, Zenon
      <4>2. QED
        BY <2>2, <3>1, <4>1, Zenon
    <3>2. CASE h # k
      BY <1>4, <2>6, <3>2, Zenon
    <3>3. QED
      BY <3>1, <3>2, Zenon
  <2>9. QED
    BY <2>6, <2>7, <2>8, Zenon
<1> HIDE DEF sized
<1>6. /\ n \in Natives /\ n.view = k /\ n.notices = sized.notices
      /\ n.height = n.view + n.inset
  <2> HIDE DEF i
  <2>1. SetTopInset(sized, k, i) = [sized EXCEPT !.height = k + i, !.inset = i]
    BY DEF SetTopInset
  <2> DEFINE m == SetTopInset(sized, k, i)
  <2>2. /\ m \in Natives /\ m.view = k /\ m.notices = sized.notices
        /\ m.height = k + i /\ m.inset = i
    <3>1. /\ sized.at \in Int /\ sized.view = k /\ k + i \in Int
          /\ sized.notices \in Seq(Int)
      BY <1>3, <1>5 DEF Natives
    <3>2. m = [at |-> sized.at, height |-> k + i, inset |-> i,
               view |-> k, notices |-> sized.notices]
      BY <1>5, <2>1 DEF Natives
    <3>3. QED
      BY <1>3, <3>1, <3>2 DEF Natives
  <2> HIDE DEF m
  <2>3. n = [m EXCEPT !.at = q]
    BY DEF m
  <2> HIDE DEF n
  <2>4. QED
    BY <1>3, <2>2, <2>3 DEF Natives
<1>7. /\ native' = [native EXCEPT ![w] = n]
      /\ bounds' = [bounds EXCEPT ![w] = Rect(0, k)]
      /\ known' = [known EXCEPT ![w] = {Rect(0, k)}]
  BY <1>1 DEF sized
<1>8. Rect(0, k) \in Rects /\ Rect(0, k).height = k
  BY <1>3 DEF Rect, Rects
<1> HIDE DEF n
<1>9. WindowTypes'
  BY <1>2, <1>6, <1>7, <1>8 DEF WindowInv, WindowTypes
<1>10. ReportsAsked'
  BY <1>2 DEF WindowInv, ReportsAsked
<1>11. ASSUME NEW v \in Windows
       PROVE  Lives(v)'
  <2>1. CASE v = w
    <3>1. /\ native'[w] = n /\ bounds'[w] = Rect(0, k) /\ life'[w] = "open"
          /\ known'[w] = {Rect(0, k)} /\ moved'[w] = TRUE
      BY <1>2, <1>7 DEF WindowInv, WindowTypes
    <3>2. Sized(w)' /\ SizeComes(w)' /\ PlaceComes(w)'
      BY <1>5, <1>6, <3>1 DEF Sized, SizeComes, PlaceComes
    <3>3. QED
      BY <1>8, <2>1, <3>1, <3>2 DEF Lives
  <2>2. CASE v # w
    <3>1. /\ native'[v] = native[v] /\ bounds'[v] = bounds[v]
          /\ life'[v] = life[v] /\ known'[v] = known[v]
          /\ moved'[v] = moved[v]
      BY <1>2, <1>7, <2>2 DEF WindowInv, WindowTypes
    <3>2. QED
      BY <1>2, <3>1 DEF WindowInv, Lives, LooperRuns, Sized, SizeComes,
                        PlaceComes, Unreported, LastReport, IsReport
  <2>3. QED
    BY <2>1, <2>2
<1>12. QED
  BY <1>9, <1>10, <1>11 DEF WindowInv

(* The window of the lemma above, put somewhere.                           *)
LEMMA PlacedIs ==
    ASSUME WindowInv, NEW w \in Windows, LooperRuns(w), NEW p \in Places,
           NEW h \in Heights
    PROVE  LET n == native[w]
               r == [Resized(n, h + n.inset) EXCEPT !.at = p]
           IN  /\ r \in Natives
               /\ r.at = p /\ r.view = h /\ r.height = r.view + r.inset
               /\ \A i \in 1 .. Len(r.notices) : r.notices[i] \in Heights
               /\ n.view = h => r.notices = n.notices
               /\ n.view # h => /\ r.notices # << >>
                                 /\ r.notices[Len(r.notices)] = h
<1> DEFINE n == native[w]
           q == Resized(n, h + n.inset)
           r == [q EXCEPT !.at = p]
<1>1. n \in Natives
  BY DEF WindowInv, WindowTypes
<1>2. /\ n.height = n.view + n.inset
      /\ \A i \in 1 .. Len(n.notices) : n.notices[i] \in Heights
  BY DEF WindowInv, Lives, Sized
<1> HIDE DEF n
<1>3. /\ q \in Natives
      /\ q.view = h /\ q.height = h + n.inset /\ q.inset = n.inset
      /\ \A i \in 1 .. Len(q.notices) : q.notices[i] \in Heights
      /\ n.view = h => q.notices = n.notices
      /\ n.view # h => q.notices # << >> /\ q.notices[Len(q.notices)] = h
  BY <1>1, <1>2, ResizedIs
<1> HIDE DEF q
<1>4. /\ r \in Natives /\ r.at = p /\ r.view = q.view
      /\ r.height = q.height /\ r.inset = q.inset /\ r.notices = q.notices
  BY <1>3, WindowAssumption DEF Natives
<1> HIDE DEF r
<1>5. /\ r \in Natives
      /\ r.at = p /\ r.view = h /\ r.height = r.view + r.inset
      /\ \A i \in 1 .. Len(r.notices) : r.notices[i] \in Heights
      /\ n.view = h => r.notices = n.notices
      /\ n.view # h => r.notices # << >> /\ r.notices[Len(r.notices)] = h
  BY <1>3, <1>4
<1>6. QED
  BY <1>5 DEF n, q, r

(* Of the windows an action leaves alone nothing changes.                  *)
Same(v) ==
    /\ life'[v] = life[v]
    /\ native'[v] = native[v]
    /\ bounds'[v] = bounds[v]
    /\ known'[v] = known[v]
    /\ moved'[v] = moved[v]

(* What is so of a window stays so when nothing of it changes.             *)
LEMMA SameKeeps ==
    ASSUME WindowInv, NEW v \in Windows, Same(v), tasks' = tasks
    PROVE  Lives(v)'
BY DEF WindowInv, Same, Lives, LooperRuns, Sized, SizeComes, PlaceComes,
       Unreported, LastReport, IsReport

(* A resize by the user is told by the notice it queues.                   *)
LEMMA UserResizesKeeps ==
    ASSUME WindowInv, NEW w \in Windows, UserResizes(w)
    PROVE  WindowInv'
<1>1. PICK p \in Places, h \in Heights :
        native' = [native EXCEPT ![w] =
                      [Resized(@, h + @.inset) EXCEPT !.at = p]]
  BY DEF UserResizes
<1> DEFINE n == native[w]
           r == [Resized(n, h + n.inset) EXCEPT !.at = p]
<1>2. /\ LooperRuns(w) /\ moved' = [moved EXCEPT ![w] = TRUE]
      /\ UNCHANGED <<life, bounds, known, tasks>>
  BY DEF UserResizes
<1>3. /\ r \in Natives
      /\ r.view = h /\ r.height = r.view + r.inset
      /\ \A i \in 1 .. Len(r.notices) : r.notices[i] \in Heights
      /\ n.view = h => r.notices = n.notices
      /\ n.view # h => r.notices # << >> /\ r.notices[Len(r.notices)] = h
  BY <1>2, PlacedIs
<1>4. native' = [native EXCEPT ![w] = r]
  BY <1>1 DEF WindowInv, WindowTypes
<1> HIDE DEF r
<1>5. WindowTypes' /\ ReportsAsked'
  BY <1>2, <1>3, <1>4 DEF WindowInv, WindowTypes, ReportsAsked
<1>6. ASSUME NEW v \in Windows
      PROVE  Lives(v)'
  <2>1. CASE v = w
    <3>1. native'[w] = r /\ moved'[w] = TRUE
      BY <1>2, <1>4 DEF WindowInv, WindowTypes
    <3>2. Sized(w)' /\ PlaceComes(w)'
      BY <1>3, <3>1 DEF Sized, PlaceComes
    <3>3. Lives(w)
      BY DEF WindowInv
    <3>4. ASSUME life[w] = "open"
          PROVE  SizeComes(w)'
      <4>1. CASE n.view # h
        BY <1>3, <3>1, <4>1 DEF SizeComes
      <4>2. CASE n.view = h
        <5>1. SizeComes(w)
          BY <3>3, <3>4 DEF Lives
        <5>2. r.notices = native[w].notices /\ r.view = native[w].view
          BY <1>3, <4>2
        <5>3. QED
          BY <1>2, <3>1, <5>1, <5>2
             DEF SizeComes, Unreported, LastReport, IsReport
      <4>3. QED
        BY <4>1, <4>2
    <3>5. QED
      BY <1>2, <2>1, <3>2, <3>3, <3>4
         DEF Lives, LooperRuns, Unreported, IsReport
  <2>2. CASE v # w
    BY <1>2, <1>4, <2>2, SameKeeps DEF WindowInv, WindowTypes, Same
  <2>3. QED
    BY <2>1, <2>2
<1>7. QED
  BY <1>5, <1>6 DEF WindowInv

(* A move by the user changes no size.                                     *)
LEMMA UserMovesKeeps ==
    ASSUME WindowInv, NEW w \in Windows, UserMoves(w)
    PROVE  WindowInv'
<1>1. PICK p \in Places : native' = [native EXCEPT ![w].at = p]
  BY DEF UserMoves
<1>2. /\ LooperRuns(w) /\ moved' = [moved EXCEPT ![w] = TRUE]
      /\ UNCHANGED <<life, bounds, known, tasks>>
  BY DEF UserMoves
<1> DEFINE n == native[w]
           r == [n EXCEPT !.at = p]
<1>3. /\ r \in Natives
      /\ r.view = n.view /\ r.height = n.height /\ r.inset = n.inset
      /\ r.notices = n.notices
  <2>1. n \in Natives /\ p \in Int
    BY WindowAssumption DEF WindowInv, WindowTypes
  <2> HIDE DEF n
  <2>2. QED
    BY <2>1 DEF Natives
<1>4. native' = [native EXCEPT ![w] = r]
  BY <1>1 DEF WindowInv, WindowTypes
<1> HIDE DEF r
<1>5. WindowTypes' /\ ReportsAsked'
  BY <1>2, <1>3, <1>4 DEF WindowInv, WindowTypes, ReportsAsked
<1>6. ASSUME NEW v \in Windows
      PROVE  Lives(v)'
  <2>1. CASE v = w
    <3>1. native'[w] = r /\ moved'[w] = TRUE
      BY <1>2, <1>4 DEF WindowInv, WindowTypes
    <3>2. Lives(w)
      BY DEF WindowInv
    <3>3. QED
      BY <1>2, <1>3, <2>1, <3>1, <3>2
         DEF Lives, LooperRuns, Sized, SizeComes, PlaceComes, Unreported,
             LastReport, IsReport
  <2>2. CASE v # w
    BY <1>2, <1>4, <2>2, SameKeeps DEF WindowInv, WindowTypes, Same
  <2>3. QED
    BY <2>1, <2>2
<1>7. QED
  BY <1>5, <1>6 DEF WindowInv

(* A resize by Chromium is told by bounds_, or by a notice.                *)
LEMMA SetBoundsKeeps ==
    ASSUME WindowInv, NEW w \in Windows, SetBoundsInPixels(w)
    PROVE  WindowInv'
<1>1. PICK p \in Places, h \in Heights :
        /\ bounds' = [bounds EXCEPT ![w] = Rect(p, h)]
        /\ known' = [known EXCEPT ![w] = {Rect(p, h)}]
        /\ native' = [native EXCEPT ![w] =
                         [Resized(@, FrameForContent(@, h)) EXCEPT !.at = p]]
  BY DEF SetBoundsInPixels
<1> DEFINE n == native[w]
           r == [Resized(n, h + n.inset) EXCEPT !.at = p]
<1>2. /\ life[w] = "open" /\ moved' = [moved EXCEPT ![w] = ~Told(w)]
      /\ UNCHANGED <<life, tasks>>
  BY DEF SetBoundsInPixels
<1>3. /\ r \in Natives
      /\ r.at = p /\ r.view = h /\ r.height = r.view + r.inset
      /\ \A i \in 1 .. Len(r.notices) : r.notices[i] \in Heights
      /\ n.view = h => r.notices = n.notices
      /\ n.view # h => r.notices # << >> /\ r.notices[Len(r.notices)] = h
  BY <1>2, PlacedIs DEF LooperRuns
<1>4. native' = [native EXCEPT ![w] = r]
  BY <1>1 DEF WindowInv, WindowTypes, FrameForContent
<1> HIDE DEF r
<1>5. Rect(p, h) \in Rects /\ Rect(p, h).height = h /\ Rect(p, h).at = p
  BY WindowAssumption DEF Rect, Rects
<1>6. Told(w) \in BOOLEAN
  BY DEF Told
<1>7. WindowTypes' /\ ReportsAsked'
  BY <1>1, <1>2, <1>3, <1>4, <1>5, <1>6
     DEF WindowInv, WindowTypes, ReportsAsked
<1>8. ASSUME NEW v \in Windows
      PROVE  Lives(v)'
  <2>1. CASE v = w
    <3>1. /\ native'[w] = r /\ bounds'[w] = Rect(p, h)
          /\ known'[w] = {Rect(p, h)} /\ life'[w] = "open"
          /\ moved'[w] = ~Told(w)
      BY <1>1, <1>2, <1>4 DEF WindowInv, WindowTypes
    <3>2. Sized(w)'
      BY <1>3, <3>1 DEF Sized
    <3>3. SizeComes(w)'
      <4>1. CASE n.view # h
        BY <1>3, <3>1, <4>1 DEF SizeComes
      <4>2. CASE n.view = h
        <5>1. SizeComes(w)
          BY <1>2 DEF WindowInv, Lives
        <5>2. r.notices = native[w].notices /\ r.view = native[w].view
              /\ bounds'[w].height = r.view
          BY <1>3, <1>5, <3>1, <4>2
        <5>3. QED
          BY <1>2, <3>1, <5>1, <5>2
             DEF SizeComes, Unreported, LastReport, IsReport
      <4>3. QED
        BY <4>1, <4>2
    <3>4. PlaceComes(w)'
      <4>1. SUFFICES ASSUME Told(w) PROVE PlaceComes(w)'
        BY <3>1 DEF PlaceComes
      <4>2. \A i \in 1 .. Len(tasks) : ~IsReport(i, w)
        BY <4>1 DEF Told, IsReport
      <4>3. \A i \in 1 .. Len(tasks') : ~LastReport(i, w)'
        BY <1>2, <4>2 DEF LastReport, IsReport
      <4>4. QED
        BY <1>3, <1>5, <3>1, <4>3 DEF PlaceComes
    <3>5. QED
      BY <1>3, <1>5, <2>1, <3>1, <3>2, <3>3, <3>4 DEF Lives
  <2>2. CASE v # w
    BY <1>1, <1>2, <1>4, <2>2, SameKeeps DEF WindowInv, WindowTypes, Same
  <2>3. QED
    BY <2>1, <2>2
<1>9. QED
  BY <1>7, <1>8 DEF WindowInv

(* The looper's report: a notice becomes a task.                           *)
LEMMA FrameResizedKeeps ==
    ASSUME WindowInv, NEW w \in Windows, FrameResized(w)
    PROVE  WindowInv'
<1> DEFINE n == native[w]
           s == n.notices
           t == BoundsTask(w, Rect(n.at, Head(s)))
           r == [n EXCEPT !.notices = Tail(s)]
<1>1. /\ LooperRuns(w) /\ s # << >>
      /\ tasks' = Append(tasks, t)
      /\ moved' = [moved EXCEPT ![w] = FALSE]
      /\ UNCHANGED <<life, bounds, known>>
  BY DEF FrameResized
<1>2. n \in Natives /\ s \in Seq(Int)
  BY DEF WindowInv, WindowTypes, Natives
<1>3. Lives(w) /\ Sized(w)
  BY <1>1 DEF WindowInv, Lives
<1>4. /\ Tail(s) \in Seq(Int) /\ Len(Tail(s)) = Len(s) - 1
      /\ Len(s) \in Nat \ {0} /\ Head(s) = s[1] /\ Head(s) \in Int
      /\ \A i \in 1 .. Len(s) - 1 : Tail(s)[i] = s[i + 1]
      /\ Tail(s) = << >> <=> Len(s) = 1
  <2>1. s \in Seq(Int) /\ s # << >>
    BY <1>1, <1>2
  <2> HIDE DEF s
  <2>2. /\ Tail(s) \in Seq(Int) /\ Len(Tail(s)) = Len(s) - 1
        /\ Len(s) \in Nat \ {0} /\ Head(s) = s[1] /\ Head(s) \in Int
        /\ \A i \in 1 .. Len(s) - 1 : Tail(s)[i] = s[i + 1]
    BY <2>1, TailIs
  <2>3. Tail(s) = << >> <=> Len(Tail(s)) = 0
    BY <2>2, EmptyIs
  <2>4. Tail(s) = << >> <=> Len(s) = 1
    BY <2>2, <2>3
  <2>5. QED
    BY <2>2, <2>4, Zenon
<1>5. /\ r \in Natives
      /\ r.at = n.at /\ r.view = n.view /\ r.height = n.height
      /\ r.inset = n.inset /\ r.notices = Tail(s)
  <2>1. n \in Natives /\ Tail(s) \in Seq(Int)
    BY <1>2, <1>4
  <2> DEFINE u == Tail(s)
  <2> HIDE DEF n, u
  <2>2. QED
    BY <2>1 DEF Natives, u
<1>6. native' = [native EXCEPT ![w] = r]
  BY <1>1 DEF FrameResized
<1>7. /\ t \in Tasks /\ t.kind = "bounds" /\ t.win = w
      /\ t.rect.height = Head(s) /\ t.rect.at = n.at
      /\ Head(s) \in Heights
  <2>1. n.at \in Int
    BY <1>2 DEF Natives
  <2>2. Rect(n.at, Head(s)) \in Rects
    BY <1>4, <2>1 DEF Rect, Rects
  <2>3. Head(s) \in Heights
    BY <1>3, <1>4 DEF Sized
  <2>4. QED
    BY <2>2, <2>3 DEF BoundsTask, Tasks, WindowTasks, Rect
<1> HIDE DEF r, t
<1>8. /\ tasks' \in Seq(Tasks) /\ Len(tasks') = Len(tasks) + 1
      /\ \A i \in 1 .. Len(tasks) : tasks'[i] = tasks[i]
      /\ tasks'[Len(tasks) + 1] = t
      /\ Len(tasks) \in Nat
  BY <1>1, <1>7, AppendIs DEF WindowInv, WindowTypes
<1> PICK last \in Nat \ {0} : last = Len(tasks) + 1
  BY <1>8
<1>9. WindowTypes' /\ ReportsAsked'
  BY <1>1, <1>5, <1>6, <1>7, <1>8 DEF WindowInv, WindowTypes, ReportsAsked
<1>10. /\ native'[w] = r /\ moved'[w] = FALSE
       /\ \A v \in Windows \ {w} :
              native'[v] = native[v] /\ moved'[v] = moved[v]
  BY <1>1, <1>6 DEF WindowInv, WindowTypes
<1>11. ASSUME NEW v \in Windows
       PROVE  Lives(v)'
  <2>1. CASE v = w
    <3>1. \A i \in 1 .. Len(tasks') :
             LastReport(i, w)' => tasks'[i] = t
      <4>1. ASSUME NEW i \in 1 .. Len(tasks), LastReport(i, w)'
            PROVE  FALSE
        <5>1. /\ last \in i + 1 .. Len(tasks')
              /\ IsReport(last, w)'
          BY <1>7, <1>8 DEF IsReport
        <5>2. QED
          BY <4>1, <5>1 DEF LastReport
      <4>2. QED
        BY <1>8, <4>1
    <3>2. ~Unreported(w)'
      <4>1. /\ last \in 1 .. Len(tasks')
            /\ IsReport(last, w)'
        BY <1>7, <1>8 DEF IsReport
      <4>2. QED
        BY <4>1 DEF Unreported
    <3>3. PlaceComes(w)'
      BY <1>5, <1>7, <1>10, <3>1, <3>2 DEF PlaceComes
    <3>4. Sized(w)'
      <4>1. \A i \in 1 .. Len(s) : s[i] \in Heights
        BY <1>3 DEF Sized
      <4> HIDE DEF s
      <4>2. \A i \in 1 .. Len(Tail(s)) : Tail(s)[i] \in Heights
        BY <1>4, <4>1
      <4>3. QED
        BY <1>3, <1>5, <1>10, <4>2 DEF Sized
    <3>5. ASSUME life[w] = "open"
          PROVE  SizeComes(w)'
      <4>1. s[Len(s)] = n.view
        BY <1>1, <1>3, <3>5 DEF Lives, SizeComes
      <4>2. CASE Len(s) = 1
        BY <1>4, <1>5, <1>7, <1>10, <3>1, <3>2, <4>1, <4>2 DEF SizeComes
      <4>3. CASE Len(s) # 1
        <5>1. /\ Tail(s) # << >>
              /\ Tail(s)[Len(s) - 1] = s[(Len(s) - 1) + 1]
              /\ (Len(s) - 1) + 1 = Len(s)
          BY <1>4, <4>3
        <5>2. QED
          BY <1>4, <1>5, <1>10, <4>1, <5>1 DEF SizeComes
      <4>4. QED
        BY <4>2, <4>3
    <3>6. life[w] # "none"
      BY <1>1 DEF LooperRuns
    <3>7. QED
      BY <1>1, <1>3, <2>1, <3>3, <3>4, <3>5, <3>6 DEF Lives, LooperRuns
  <2>2. CASE v # w
    <3>1. ~IsReport(last, v)'
      BY <1>7, <1>8, <2>2 DEF IsReport
    <3>2. Unreported(v)' <=> Unreported(v)
      BY <1>8, <3>1 DEF Unreported, IsReport
    <3>3. \A i \in 1 .. Len(tasks') : LastReport(i, v)' =>
             i \in 1 .. Len(tasks) /\ LastReport(i, v)
      BY <1>8, <3>1 DEF LastReport, IsReport
    <3>4. Lives(v)
      BY DEF WindowInv
    <3>5. QED
      BY <1>1, <1>8, <1>10, <2>2, <3>2, <3>3, <3>4
         DEF Lives, LooperRuns, Sized, SizeComes, PlaceComes
  <2>3. QED
    BY <2>1, <2>2
<1>12. QED
  BY <1>9, <1>11 DEF WindowInv

(* The UI thread hears of a report.                                        *)
LEMMA OnBoundsKeeps ==
    ASSUME WindowInv, OnBoundsFromLooper
    PROVE  WindowInv'
<1> PICK t, w : t = Head(tasks) /\ w = t.win
  OBVIOUS
<1>1. /\ tasks # << >> /\ t.kind = "bounds" /\ tasks' = Tail(tasks)
      /\ UNCHANGED <<life, native, moved>>
  BY DEF OnBoundsFromLooper, NextTask
<1>2. /\ tasks' \in Seq(Tasks) /\ Len(tasks') = Len(tasks) - 1
      /\ \A i \in 1 .. Len(tasks') : tasks'[i] = tasks[i + 1]
      /\ Len(tasks) \in Nat \ {0}
      /\ t = tasks[1] /\ t \in Tasks
  BY <1>1, TailIs DEF WindowInv, WindowTypes
<1>3. w \in Windows /\ t.rect \in Rects /\ t.rect.height \in Heights
  BY <1>1, <1>2 DEF Tasks, WindowTasks, WindowInv, ReportsAsked
<1>4. IF life[w] = "open"
      THEN /\ bounds' = [bounds EXCEPT ![w] = t.rect]
           /\ known' = [known EXCEPT ![w] = {t.rect}]
      ELSE UNCHANGED <<bounds, known>>
  BY DEF OnBoundsFromLooper
<1>5. WindowTypes' /\ ReportsAsked'
  BY <1>1, <1>2, <1>3, <1>4 DEF WindowInv, WindowTypes, ReportsAsked
<1>6. ASSUME NEW v \in Windows
      PROVE  /\ \A i \in 1 .. Len(tasks') : LastReport(i, v)' =>
                    i + 1 \in 1 .. Len(tasks) /\ LastReport(i + 1, v)
             /\ v # w => (Unreported(v)' <=> Unreported(v))
             /\ v = w /\ Unreported(v)' => LastReport(1, v)
  <2>1. \A i \in 1 .. Len(tasks') : IsReport(i, v)' <=> IsReport(i + 1, v)
    BY <1>2 DEF IsReport
  <2>2. ASSUME NEW j \in 2 .. Len(tasks)
        PROVE  j - 1 \in 1 .. Len(tasks') /\ (j - 1) + 1 = j
    BY <1>2
  <2>3. ASSUME NEW i \in 1 .. Len(tasks'), LastReport(i, v)'
        PROVE  i + 1 \in 1 .. Len(tasks) /\ LastReport(i + 1, v)
    <3>1. ASSUME NEW j \in i + 2 .. Len(tasks)
          PROVE  ~IsReport(j, v)
      <4>1. j \in 2 .. Len(tasks) /\ j - 1 \in i + 1 .. Len(tasks')
            /\ (j - 1) + 1 = j
        BY <1>2
      <4>2. j - 1 \in 1 .. Len(tasks')
        BY <2>2, <4>1
      <4>3. QED
        BY <2>1, <2>3, <4>1, <4>2 DEF LastReport
    <3>2. i + 1 \in 1 .. Len(tasks) /\ (i + 1) + 1 = i + 2
      BY <1>2
    <3>3. QED
      BY <2>1, <2>3, <3>1, <3>2 DEF LastReport
  <2>4. Unreported(v)' <=> \A j \in 2 .. Len(tasks) : ~IsReport(j, v)
    <3>1. ASSUME Unreported(v)', NEW j \in 2 .. Len(tasks)
          PROVE  ~IsReport(j, v)
      <4>1. j - 1 \in 1 .. Len(tasks') /\ (j - 1) + 1 = j
        BY <2>2
      <4>2. QED
        BY <2>1, <3>1, <4>1 DEF Unreported
    <3>2. \A i \in 1 .. Len(tasks') : i + 1 \in 2 .. Len(tasks)
      BY <1>2
    <3>3. QED
      BY <2>1, <3>1, <3>2 DEF Unreported
  <2>5. IsReport(1, v) <=> v = w
    BY <1>1, <1>2 DEF IsReport
  <2>6. 1 .. Len(tasks) = {1} \cup (2 .. Len(tasks)) /\ 1 + 1 = 2
    BY <1>2
  <2>7. QED
    BY <2>3, <2>4, <2>5, <2>6 DEF Unreported, LastReport
<1>7. ASSUME NEW v \in Windows
      PROVE  Lives(v)'
  <2>1. Lives(v)
    BY DEF WindowInv
  <2>2. CASE v = w /\ life[w] = "open"
    <3>1. bounds'[w] = t.rect /\ known'[w] = {t.rect}
      BY <1>3, <1>4, <2>2 DEF WindowInv, WindowTypes
    <3>2. SizeComes(w)' /\ PlaceComes(w)'
      <4>1. /\ \A i \in 1 .. Len(tasks') : LastReport(i, w)' =>
                   i + 1 \in 1 .. Len(tasks) /\ LastReport(i + 1, w)
            /\ Unreported(w)' => LastReport(1, w)
        BY <1>6, <2>2
      <4>2. SizeComes(w) /\ PlaceComes(w) /\ 1 \in 1 .. Len(tasks)
        BY <1>2, <2>1, <2>2 DEF Lives
      <4>3. QED
        BY <1>1, <1>2, <3>1, <4>1, <4>2 DEF SizeComes, PlaceComes
    <3>3. QED
      BY <1>1, <1>3, <2>1, <2>2, <3>1, <3>2 DEF Lives, LooperRuns, Sized
  <2>3. CASE v # w
    <3>1. bounds'[v] = bounds[v] /\ known'[v] = known[v]
      BY <1>4, <2>3 DEF WindowInv, WindowTypes
    <3>2. QED
      BY <1>1, <1>2, <1>6, <2>1, <2>3, <3>1
         DEF Lives, LooperRuns, Sized, SizeComes, PlaceComes
  <2>4. CASE v = w /\ life[w] # "open"
    <3>1. bounds' = bounds /\ known' = known
      BY <1>4, <2>4
    <3>2. life[w] # "none"
      BY <1>2, <1>1, <2>1, <2>4 DEF Lives, Unreported, IsReport
    <3>3. QED
      BY <1>1, <2>1, <2>4, <3>1, <3>2 DEF Lives, LooperRuns, Sized
  <2>5. QED
    BY <2>2, <2>3, <2>4
<1>8. QED
  BY <1>5, <1>7 DEF WindowInv

(* The window is on its way out, or gone: little is claimed of it.         *)
LEMMA CloseShellKeeps ==
    ASSUME WindowInv, CloseShell
    PROVE  WindowInv'
<1> PICK w : w = Head(tasks).win
  OBVIOUS
<1>1. /\ tasks # << >> /\ Head(tasks).kind = "closeShell"
      /\ tasks' = Tail(tasks)
      /\ UNCHANGED <<native, bounds, moved>>
  BY DEF CloseShell, NextTask
<1>2. CASE life[w] # "open"
  BY <1>1, <1>2, DropKeeps DEF CloseShell
<1>3. CASE life[w] = "open"
  <2>1. /\ life' = [life EXCEPT ![w] = "quitting"]
        /\ known' = [known EXCEPT ![w] = {}]
    BY <1>3 DEF CloseShell
  <2>2. /\ tasks' \in Seq(Tasks) /\ Len(tasks') = Len(tasks) - 1
        /\ \A i \in 1 .. Len(tasks') : tasks'[i] = tasks[i + 1]
        /\ Len(tasks) \in Nat \ {0}
        /\ tasks[1].kind # "bounds" /\ Head(tasks) \in Tasks
    BY <1>1, TailIs DEF WindowInv, WindowTypes
  <2>3. w \in Windows
    BY <1>1, <2>2 DEF Tasks, WindowTasks
  <2>4. WindowTypes' /\ ReportsAsked'
    BY <1>1, <2>1, <2>2, <2>3 DEF WindowInv, WindowTypes, ReportsAsked
  <2>5. ASSUME NEW v \in Windows
        PROVE  Lives(v)'
    <3>1. CASE v = w
      <4>1. life'[w] = "quitting" /\ known'[w] = {}
        BY <2>1, <2>3 DEF WindowInv, WindowTypes
      <4>2. Sized(w)'
        BY <1>1, <1>3, <2>3 DEF WindowInv, Lives, LooperRuns, Sized
      <4>3. QED
        BY <3>1, <4>1, <4>2 DEF Lives
    <3>2. CASE v # w
      <4>1. life'[v] = life[v] /\ known'[v] = known[v]
        BY <2>1, <3>2 DEF WindowInv, WindowTypes
      <4>2. Lives(v)
        BY DEF WindowInv
      <4>3. QED
        BY <1>1, <2>2, <4>1, <4>2, ShiftIs
           DEF Lives, LooperRuns, Sized, SizeComes, PlaceComes
    <3>3. QED
      BY <3>1, <3>2
  <2>6. QED
    BY <2>4, <2>5 DEF WindowInv
<1>4. QED
  BY <1>2, <1>3

(* The click on the close button asks for CloseShell behind what is posted. *)
LEMMA OnCloseKeeps ==
    ASSUME WindowInv, OnCloseFromLooper
    PROVE  WindowInv'
<1> PICK w, t : w = Head(tasks).win /\ t = Task("closeShell", w)
  OBVIOUS
<1>1. /\ tasks # << >> /\ Head(tasks).kind = "close"
      /\ UNCHANGED <<life, native, bounds, known, moved>>
      /\ \/ tasks' = Tail(tasks)
         \/ tasks' = Append(Tail(tasks), t)
  BY DEF OnCloseFromLooper, NextTask
<1>2. CASE tasks' = Tail(tasks)
  BY <1>1, <1>2, DropKeeps
<1>3. CASE tasks' = Append(Tail(tasks), t)
  <2> PICK s : s = Tail(tasks)
    OBVIOUS
  <2>1. /\ s \in Seq(Tasks) /\ Len(s) = Len(tasks) - 1
        /\ \A i \in 1 .. Len(tasks) - 1 : s[i] = tasks[i + 1]
        /\ Len(tasks) \in Nat \ {0}
        /\ tasks[1].kind # "bounds" /\ Head(tasks) \in Tasks
    BY <1>1, TailIs DEF WindowInv, WindowTypes
  <2>2. t \in Tasks /\ t.kind # "bounds"
    BY <1>1, <2>1 DEF Task, Tasks, WindowTasks, NoRect, Rect, Rects
  <2>3. /\ tasks' \in Seq(Tasks) /\ Len(tasks') = Len(tasks)
        /\ \A i \in 1 .. Len(tasks) - 1 : tasks'[i] = tasks[i + 1]
        /\ tasks'[Len(tasks)].kind # "bounds"
    <3>1. /\ Append(s, t) \in Seq(Tasks)
          /\ Len(Append(s, t)) = Len(s) + 1
          /\ \A i \in 1 .. Len(s) : Append(s, t)[i] = s[i]
          /\ Append(s, t)[Len(s) + 1] = t
      BY <2>1, <2>2, AppendIs
    <3>2. tasks' = Append(s, t)
      BY <1>3
    <3>3. QED
      BY <2>1, <2>2, <3>1, <3>2
  <2>4. WindowTypes' /\ ReportsAsked'
    <3>1. \A i \in 1 .. Len(tasks') : tasks'[i].kind = "bounds" =>
             i + 1 \in 1 .. Len(tasks) /\ tasks'[i] = tasks[i + 1]
      BY <2>1, <2>3
    <3>2. QED
      BY <1>1, <2>3, <3>1 DEF WindowInv, WindowTypes, ReportsAsked
  <2>5. ASSUME NEW v \in Windows
        PROVE  /\ Unreported(v)' <=> Unreported(v)
               /\ \A i \in 1 .. Len(tasks') : LastReport(i, v)' =>
                      i + 1 \in 1 .. Len(tasks) /\ LastReport(i + 1, v)
    <3>1. /\ \A i \in 1 .. Len(tasks) - 1 :
                IsReport(i, v)' <=> IsReport(i + 1, v)
          /\ \A i \in 1 .. Len(tasks') : IsReport(i, v)' =>
                i \in 1 .. Len(tasks) - 1
          /\ ~IsReport(1, v)
      BY <2>1, <2>3 DEF IsReport
    <3>2. \A j \in 2 .. Len(tasks) : IsReport(j, v) <=> IsReport(j - 1, v)'
      <4>1. \A j \in 2 .. Len(tasks) :
               j - 1 \in 1 .. Len(tasks) - 1 /\ (j - 1) + 1 = j
        BY <2>1
      <4>2. QED
        BY <2>3, <4>1 DEF IsReport
    <3>3. Unreported(v)' => Unreported(v)
      <4>1. ASSUME Unreported(v)', NEW j \in 1 .. Len(tasks), IsReport(j, v)
            PROVE  FALSE
        <5>1. j \in 2 .. Len(tasks) /\ j - 1 \in 1 .. Len(tasks')
          BY <2>1, <2>3, <3>1, <4>1
        <5>2. QED
          BY <3>2, <4>1, <5>1 DEF Unreported
      <4>2. QED
        BY <4>1 DEF Unreported
    <3>4. Unreported(v) => Unreported(v)'
      BY <2>1, <3>1 DEF Unreported
    <3>5. ASSUME NEW i \in 1 .. Len(tasks'), LastReport(i, v)'
          PROVE  i + 1 \in 1 .. Len(tasks) /\ LastReport(i + 1, v)
      <4>1. i \in 1 .. Len(tasks) - 1 /\ IsReport(i + 1, v)
        BY <3>1, <3>5 DEF LastReport
      <4>2. ASSUME NEW j \in i + 2 .. Len(tasks)
            PROVE  ~IsReport(j, v)
        <5>1. j \in 2 .. Len(tasks) /\ j - 1 \in i + 1 .. Len(tasks')
          BY <2>1, <2>3, <4>1
        <5>2. QED
          BY <3>2, <3>5, <5>1 DEF LastReport
      <4>3. QED
        BY <2>1, <4>1, <4>2 DEF LastReport
    <3>6. QED
      BY <3>3, <3>4, <3>5
  <2>6. ASSUME NEW v \in Windows
        PROVE  Lives(v)'
    BY <1>1, <2>1, <2>3, <2>5
       DEF WindowInv, Lives, LooperRuns, Sized, SizeComes, PlaceComes
  <2>7. QED
    BY <2>4, <2>6 DEF WindowInv
<1>4. QED
  BY <1>1, <1>2, <1>3

(* A window that is gone has nothing left to settle.                       *)
LEMMA QuitKeeps ==
    ASSUME WindowInv, NEW w \in Windows, Quit(w)
    PROVE  WindowInv'
<1>1. /\ life[w] = "quitting" /\ life' = [life EXCEPT ![w] = "gone"]
      /\ native' = [native EXCEPT ![w] = NoNative]
      /\ bounds' = [bounds EXCEPT ![w] = NoRect]
      /\ moved' = [moved EXCEPT ![w] = FALSE]
      /\ UNCHANGED <<known, tasks>>
  BY DEF Quit
<1>2. NoNative \in Natives /\ NoRect \in Rects
  BY DEF NoNative, Natives, NoRect, Rect, Rects
<1>3. WindowTypes' /\ ReportsAsked'
  BY <1>1, <1>2 DEF WindowInv, WindowTypes, ReportsAsked
<1>4. ASSUME NEW v \in Windows
      PROVE  Lives(v)'
  <2>1. CASE v = w
    <3>1. life'[w] = "gone"
      BY <1>1 DEF WindowInv, WindowTypes
    <3>2. QED
      BY <1>1, <2>1, <3>1 DEF WindowInv, Lives, LooperRuns
  <2>2. CASE v # w
    BY <1>1, <2>2, SameKeeps DEF WindowInv, WindowTypes, Same
  <2>3. QED
    BY <2>1, <2>2
<1>5. QED
  BY <1>3, <1>4 DEF WindowInv

-----------------------------------------------------------------------------
(* Once everything has been told, both sides have one size and place.      *)
LEMMA WindowsSettle == WindowInv => BoundsSettle
BY DEF WindowInv, Lives, SizeComes, PlaceComes, BoundsSettle, Told,
       Unreported, IsReport

(* A size in bounds_ was asked for.                                        *)
LEMMA SizesAsked == WindowInv => OnlyAskedSizes
BY DEF WindowInv, Lives, OnlyAskedSizes

-----------------------------------------------------------------------------
(* The frames: what is claimed of them holds step by step, once it is      *)
(* known that a window not opened yet has no bitmap.                       *)
FrameInv ==
    /\ canvas \in [Windows -> [height : Int, dirty : SUBSET Bands]]
    /\ frame \in [Windows -> [height : Int, stale : SUBSET Bands]]
    /\ \A w \in Windows : life[w] = "none" => frame[w].height = 0
    /\ FrameNotStale

(* Nothing has been painted.                                               *)
LEMMA InitFrame == WindowInit => FrameInv
BY DEF WindowInit, FrameInv, FrameNotStale, NoCanvas, NoFrame

(* A window is opened or on its way out, and no frame changes.             *)
LEMMA FrameKept ==
    ASSUME FrameInv, UNCHANGED <<canvas, frame, given>>,
           \A w \in Windows :
              \/ life'[w] = life[w]
              \/ life[w] = "none" /\ life'[w] = "open"
              \/ life[w] # "none" /\ life'[w] \in {"quitting", "gone"}
    PROVE  FrameInv'
<1>1. Lone' => Lone
  BY DEF Lone
<1>2. QED
  BY <1>1 DEF FrameInv, FrameNotStale

(* The frame goes with its window.                                         *)
LEMMA QuitKeepsFrame ==
    ASSUME WindowInv, FrameInv, NEW w \in Windows, Quit(w)
    PROVE  FrameInv'
<1>1. /\ life' = [life EXCEPT ![w] = "gone"] /\ life[w] = "quitting"
      /\ canvas' = [canvas EXCEPT ![w] = NoCanvas]
      /\ frame' = [frame EXCEPT ![w] = NoFrame]
      /\ given' = given
  BY DEF Quit, Env
<1>2. /\ NoCanvas \in [height : Int, dirty : SUBSET Bands]
      /\ NoFrame \in [height : Int, stale : SUBSET Bands]
      /\ NoFrame.height = 0
  BY DEF NoCanvas, NoFrame
<1>3. \A v \in Windows \ {w} : /\ life'[v] = life[v]
                                /\ canvas'[v] = canvas[v]
                                /\ frame'[v] = frame[v]
  BY <1>1 DEF WindowInv, WindowTypes, FrameInv
<1>4. life'[w] = "gone" /\ frame'[w].height = 0
  BY <1>1, <1>2 DEF WindowInv, WindowTypes, FrameInv
<1>5. Lone' => Lone
  BY <1>1, <1>3, <1>4 DEF Lone
<1>6. /\ canvas' \in [Windows -> [height : Int, dirty : SUBSET Bands]]
      /\ frame' \in [Windows -> [height : Int, stale : SUBSET Bands]]
  BY <1>1, <1>2 DEF FrameInv
<1>7. QED
  BY <1>1, <1>3, <1>4, <1>5, <1>6 DEF FrameInv, FrameNotStale

(* Bands of w's canvas are painted, some or, by a new surface, all.        *)
LEMMA PaintedKeeps ==
    ASSUME WindowInv, FrameInv, NEW w \in Windows, NEW B \in SUBSET Bands,
           NEW c \in [height : Int, dirty : SUBSET Bands],
           c.dirty = B \cup canvas[w].dirty \/ c.dirty = Bands,
           B \subseteq c.dirty,
           canvas' = [canvas EXCEPT ![w] = c], frame' = Stale(w, B),
           UNCHANGED <<life, given>>
    PROVE  FrameInv'
<1>1. PICK f : f = [height |-> frame[w].height,
                    stale |-> IF frame[w].height = 0
                              THEN {} ELSE frame[w].stale \cup B]
  OBVIOUS
<1>2. frame[w] \in [height : Int, stale : SUBSET Bands]
  BY DEF FrameInv
<1>3. frame' = [frame EXCEPT ![w] = f]
  <2>1. ASSUME NEW F \in [height : Int, stale : SUBSET Bands]
        PROVE  [height |-> F.height,
                stale |-> IF F.height = 0 THEN {} ELSE F.stale \cup B]
               = [F EXCEPT !.stale = IF F.height = 0 THEN {} ELSE @ \cup B]
    <3>1. ASSUME NEW S \in SUBSET Bands
          PROVE  [height |-> F.height, stale |-> S] = [F EXCEPT !.stale = S]
      OBVIOUS
    <3>2. (IF F.height = 0 THEN {} ELSE F.stale \cup B) \in SUBSET Bands
      OBVIOUS
    <3>3. QED
      BY <3>1, <3>2, Zenon
  <2>2. f = [frame[w] EXCEPT !.stale = IF frame[w].height = 0 THEN {}
                                       ELSE @ \cup B]
    BY <1>1, <1>2, <2>1, Zenon
  <2>3. QED
    BY <2>2 DEF Stale, FrameInv
<1>4. /\ f \in [height : Int, stale : SUBSET Bands]
      /\ f.height = frame[w].height
      /\ f.height # 0 => f.stale = frame[w].stale \cup B
  BY <1>1, <1>2
<1>5. /\ canvas' \in [Windows -> [height : Int, dirty : SUBSET Bands]]
      /\ frame' \in [Windows -> [height : Int, stale : SUBSET Bands]]
  BY <1>3, <1>4 DEF FrameInv
<1>6. /\ canvas'[w] = c /\ frame'[w] = f
      /\ \A v \in Windows \ {w} : /\ canvas'[v] = canvas[v]
                                  /\ frame'[v] = frame[v]
  BY <1>3 DEF FrameInv
<1>7. ASSUME given \/ Lone, life[w] = "open", f.height # 0
      PROVE  f.stale \subseteq c.dirty
  <2>1. frame[w].stale \subseteq canvas[w].dirty
    BY <1>4, <1>7 DEF FrameInv, FrameNotStale
  <2>2. f.stale \in SUBSET Bands /\ c.dirty \in SUBSET Bands
    BY <1>4
  <2>3. QED
    BY <1>4, <1>7, <2>1, <2>2
<1>8. Lone' <=> Lone
  BY DEF Lone
<1>9. FrameNotStale'
  BY <1>4, <1>6, <1>7, <1>8 DEF FrameInv, FrameNotStale
<1>10. QED
  BY <1>4, <1>5, <1>6, <1>9 DEF FrameInv

(* A new surface is dirty all over.                                        *)
LEMMA ResizeCanvasKeeps ==
    ASSUME WindowInv, FrameInv, NEW w \in Windows, ResizeCanvas(w)
    PROVE  FrameInv'
<1> DEFINE c == [height |-> bounds[w].height, dirty |-> Bands]
<1>1. /\ canvas' = [canvas EXCEPT ![w] = c] /\ frame' = Stale(w, Bands)
      /\ UNCHANGED <<life, given>>
  BY DEF ResizeCanvas, Env
<1>2. bounds[w].height \in Int
  BY DEF WindowInv, WindowTypes, Rects
<1>3. QED
  BY <1>1, <1>2, PaintedKeeps

(* A painted band is dirty.                                                *)
LEMMA PaintKeeps ==
    ASSUME WindowInv, FrameInv, NEW w \in Windows, Paint(w)
    PROVE  FrameInv'
<1>1. PICK b \in Bands :
        /\ canvas' = [canvas EXCEPT ![w].dirty = @ \cup {b}]
        /\ frame' = Stale(w, {b})
  BY DEF Paint
<1>2. UNCHANGED <<life, given>>
  BY DEF Paint, Env
<1> DEFINE c == [height |-> canvas[w].height,
                 dirty |-> {b} \cup canvas[w].dirty]
<1>3. canvas[w] \in [height : Int, dirty : SUBSET Bands]
  BY DEF FrameInv
<1>4. c \in [height : Int, dirty : SUBSET Bands]
  BY <1>3
<1>5. canvas' = [canvas EXCEPT ![w] = c]
  <2>1. c = [canvas[w] EXCEPT !.dirty = @ \cup {b}]
    BY <1>3
  <2>2. QED
    BY <1>1, <2>1 DEF FrameInv
<1>6. QED
  BY <1>1, <1>2, <1>4, <1>5, PaintedKeeps

(* Where a canvas presents, when the claim is made: into its own window.   *)
LEMMA ResolvedIs ==
    ASSUME WindowInv, NEW w \in Windows, LooperRuns(w), given \/ Lone
    PROVE  /\ ResolvedWidget(w) \subseteq {w}
           /\ life[w] = "open" => ResolvedWidget(w) = {w}
<1>1. \A v \in Windows : v \in Registered => life[v] = "open"
  BY DEF WindowInv, Lives, Registered
<1>2. life[w] = "open" => w \in Registered
  BY DEF WindowInv, Lives, Registered
<1>3. CASE given
  BY <1>2, <1>3 DEF ResolvedWidget
<1>4. CASE ~given
  <2>1. Lone /\ life[w] # "none"
    BY <1>4 DEF LooperRuns
  <2>2. \A v \in Registered : v = w
    BY <1>1, <2>1 DEF Lone, Registered
  <2>3. life[w] = "open" => Registered = {w}
    BY <1>2, <2>2
  <2>4. QED
    BY <1>4, <2>2, <2>3 DEF ResolvedWidget
<1>5. QED
  BY <1>3, <1>4

(* What is presented is fresh, into whichever bitmap it goes.              *)
LEMMA PresentKeeps ==
    ASSUME WindowInv, FrameInv, NEW w \in Windows, PresentCanvas(w)
    PROVE  FrameInv'
<1>1. /\ LooperRuns(w) /\ UNCHANGED <<life, given>>
      /\ canvas' = [canvas EXCEPT ![w].dirty = {}]
  BY DEF PresentCanvas, Env
<1>2. canvas[w] \in [height : Int, dirty : SUBSET Bands]
  BY DEF FrameInv
<1>3. canvas' \in [Windows -> [height : Int, dirty : SUBSET Bands]]
  <2>1. [canvas[w] EXCEPT !.dirty = {}]
           \in [height : Int, dirty : SUBSET Bands]
    BY <1>2
  <2>2. QED
    BY <1>1, <2>1 DEF FrameInv
<1>4. \A v \in Windows \ {w} : canvas'[v] = canvas[v]
  BY <1>1 DEF FrameInv
<1>5. ResolvedWidget(w) \subseteq Registered
  BY DEF ResolvedWidget
<1>6. CASE ResolvedWidget(w) = {}
  <2>1. frame' = frame
    BY <1>6 DEF PresentCanvas
  <2>2. given \/ Lone => life[w] # "open"
    BY <1>1, <1>6, ResolvedIs
  <2>3. QED
    BY <1>1, <1>3, <1>4, <2>1, <2>2 DEF FrameInv, FrameNotStale, Lone
<1>7. CASE ResolvedWidget(w) # {}
  <2>1. PICK v \in ResolvedWidget(w) :
          LET new == frame[v].height # canvas[w].height
          IN  \/ frame' = [frame EXCEPT ![v] =
                    [height |-> canvas[w].height,
                     stale |-> IF v # w THEN Bands
                               ELSE (IF new THEN Bands ELSE @.stale)
                                        \ Copied(w, new)]]
              \/ /\ new
                 /\ frame' = [frame EXCEPT ![v] = NoFrame]
    BY <1>7 DEF PresentCanvas
  <2>2. v \in Windows /\ known[v] # {}
    BY <1>5 DEF Registered
  <2>3. life[v] = "open"
    BY <2>2 DEF WindowInv, Lives
  <2>4. frame[v] \in [height : Int, stale : SUBSET Bands]
    BY <2>2 DEF FrameInv
  <2>5. PICK f : /\ frame' = [frame EXCEPT ![v] = f]
                 /\ f \in [height : Int, stale : SUBSET Bands]
                 /\ given \/ Lone => f.height = 0 \/ f.stale = {}
    <3> DEFINE new == frame[v].height # canvas[w].height
    <3>1. CASE frame' = [frame EXCEPT ![v] = NoFrame]
      <4>1. /\ NoFrame \in [height : Int, stale : SUBSET Bands]
            /\ NoFrame.height = 0
        BY DEF NoFrame
      <4>2. QED
        BY <3>1, <4>1
    <3>2. CASE frame' # [frame EXCEPT ![v] = NoFrame]
      <4> DEFINE f == [height |-> canvas[w].height,
                       stale |-> IF v # w THEN Bands
                                 ELSE (IF new THEN Bands
                                       ELSE frame[v].stale)
                                          \ Copied(w, new)]
      <4>1. frame' = [frame EXCEPT ![v] = f]
        BY <2>1, <2>2, <3>2 DEF FrameInv
      <4>2. f \in [height : Int, stale : SUBSET Bands]
        BY <1>2, <2>4
      <4>3. ASSUME given \/ Lone
            PROVE  f.stale = {}
        <5>1. v = w
          BY <1>1, <4>3, ResolvedIs
        <5>2. ASSUME ~new
              PROVE  frame[v].stale \subseteq Copied(w, new)
          <6>1. CASE canvas[w].dirty = {}
            BY <2>4, <5>2, <6>1 DEF Copied
          <6>2. CASE canvas[w].dirty # {} /\ frame[w].height # 0
            BY <2>2, <2>3, <4>3, <5>1, <5>2, <6>2
               DEF FrameInv, FrameNotStale, Copied
          <6>3. canvas[w].height # 0
            BY DEF PresentCanvas
          <6>4. QED
            BY <5>1, <5>2, <6>1, <6>2, <6>3
        <5>3. CASE new
          BY <5>1, <5>3 DEF Copied
        <5>4. CASE ~new
          BY <5>1, <5>2, <5>4
        <5>5. QED
          BY <5>3, <5>4
      <4>4. QED
        BY <4>1, <4>2, <4>3
    <3>3. QED
      BY <3>1, <3>2
  <2>6. /\ frame'[v] = f
        /\ \A u \in Windows \ {v} : frame'[u] = frame[u]
        /\ frame' \in [Windows -> [height : Int, stale : SUBSET Bands]]
    BY <2>2, <2>5 DEF FrameInv
  <2>7. \A u \in Windows : life[u] = "none" => frame'[u].height = 0
    BY <2>3, <2>6 DEF FrameInv
  <2>8. ASSUME given \/ Lone, NEW u \in Windows, life[u] = "open",
               frame'[u].height # 0
        PROVE  frame'[u].stale \subseteq canvas'[u].dirty
    <3>1. v = w
      BY <1>1, <2>8, ResolvedIs
    <3>2. CASE u = w
      BY <2>5, <2>6, <2>8, <3>1, <3>2
    <3>3. CASE u # w
      BY <1>4, <2>6, <2>8, <3>1, <3>3 DEF FrameInv, FrameNotStale
    <3>4. QED
      BY <3>2, <3>3
  <2>9. FrameNotStale'
    BY <1>1, <2>8 DEF FrameNotStale, Lone
  <2>10. QED
    BY <1>1, <1>3, <2>6, <2>7, <2>9 DEF FrameInv
<1>8. QED
  BY <1>6, <1>7
=============================================================================

---------------------------- MODULE BrowserShell ----------------------------
(***************************************************************************)
(* The shell's half of a browser window: what the platform delegate tells  *)
(* the native toolbar as pages load, and the install button, which asks    *)
(* the page for its manifest and writes a launcher and a Deskbar entry     *)
(* (shell_platform_delegate_aura.cc, and BrowserChromeView in              *)
(* haiku_beapi_views.cc).                                                  *)
(*                                                                         *)
(* A page stands for its manifest and the app that would be installed from *)
(* it.  Pages, their loads and the renderer that answers GetManifest are   *)
(* Chromium's: a page answers its requests in order, and one that is left  *)
(* answers what is still open with an empty manifest, as                   *)
(* ManifestManagerHost does when its page goes.                            *)
(***************************************************************************)
EXTENDS HaikuWindow

CONSTANTS
    Pages,         \* the pages there are
    Installable,   \* those whose manifest IsInstallable accepts
    NoPage         \* no page, no app

ASSUME ShellAssumption ==
    /\ Installable \in SUBSET Pages
    /\ NoPage \notin Pages

VARIABLES
    page,        \* page[w]: the page w shows
    address,     \* address[w]: current_url_ of w's toolbar
    loading,     \* loading[w]: between the start and the end of a load
    requests,    \* requests[w]: what w's page has yet to answer
    button,      \* button[w]: the app w's install button offers
    launcher,    \* launcher[p]: p's launcher script: "none", "torn", "whole"
    linked       \* the apps Deskbar lists

shellVars ==
    <<page, address, loading, requests, button, launcher, linked>>

ShellInit ==
    /\ page = [w \in Windows |-> NoPage]
    /\ address = [w \in Windows |-> NoPage]
    /\ loading = [w \in Windows |-> FALSE]
    /\ requests = [w \in Windows |-> << >>]
    /\ button = [w \in Windows |-> NoPage]
    /\ launcher = [p \in Pages |-> "none"]
    /\ linked = {}

Offer(p) == IF p \in Installable THEN p ELSE NoPage

(* A slip: whatever has a manifest is offered.                             *)
OfferedAny(w, p) == [button EXCEPT ![w] = IF toolbar THEN p ELSE NoPage]

(* A slip: the button is never hidden.                                     *)
OfferedForGood(w, p) ==
    [button EXCEPT ![w] = IF toolbar /\ p \in Installable THEN p ELSE @]

(* SetBrowserChromeInstallable: nothing happens in a window without one.   *)
Offered(w, p) ==
    [button EXCEPT ![w] = IF toolbar THEN Offer(p) ELSE NoPage]

-----------------------------------------------------------------------------
(* SetIsLoading(true).                                                     *)
StartLoad(w) ==
    /\ UiFree
    /\ life[w] = "open"
    /\ ~loading[w]
    /\ loading' = [loading EXCEPT ![w] = TRUE]
    /\ UNCHANGED <<page, address, requests, button, launcher, linked,
                   windowVars>>

(* The load commits another page: the address is shown, and the old page   *)
(* answers its open requests with an empty manifest.                       *)
Commit(w) ==
    /\ UiFree
    /\ life[w] = "open"
    /\ loading[w]
    /\ \E p \in Pages \ {page[w]} :
          /\ page' = [page EXCEPT ![w] = p]
          /\ address' = [address EXCEPT ![w] = p]
    /\ requests' = [requests EXCEPT ![w] = << >>]
    /\ button' = IF \E i \in 1 .. Len(requests[w]) :
                        requests[w][i] = "button"
                 THEN Offered(w, NoPage)
                 ELSE button
    /\ UNCHANGED <<loading, launcher, linked, windowVars>>

(* A slip: the end of a load asks for nothing.                             *)
EndLoadSilent(w) ==
    /\ UiFree
    /\ life[w] = "open"
    /\ loading[w]
    /\ loading' = [loading EXCEPT ![w] = FALSE]
    /\ UNCHANGED <<page, address, requests, button, launcher, linked,
                   windowVars>>

(* SetIsLoading(false), when a load is done or stopped: the page is asked  *)
(* for its manifest once.                                                  *)
EndLoad(w) ==
    /\ UiFree
    /\ life[w] = "open"
    /\ loading[w]
    /\ loading' = [loading EXCEPT ![w] = FALSE]
    /\ requests' = [requests EXCEPT ![w] = Append(@, "button")]
    /\ UNCHANGED <<page, address, button, launcher, linked, windowVars>>

Asked(w, what) ==
    /\ UiFree
    /\ life[w] = "open"
    /\ requests[w] # << >>
    /\ Head(requests[w]) = what

(* OnManifest: the button offers the page's app, or is hidden.             *)
OnManifest(w) ==
    /\ Asked(w, "button")
    /\ button' = Offered(w, page[w])
    /\ requests' = [requests EXCEPT ![w] = Tail(@)]
    /\ UNCHANGED <<page, address, loading, launcher, linked, windowVars>>

-----------------------------------------------------------------------------
(* The install button, on the looper: OnInstall posts.                     *)
OnInstall(w) ==
    /\ LooperRuns(w)
    /\ button[w] # NoPage
    /\ tasks' = Append(tasks, Task("install", w))
    /\ UNCHANGED <<life, native, bounds, known, moved, Env, canvas, frame,
                   shellVars>>

(* RunInstall: nothing when the Shell is gone (Detach).                    *)
RunInstall ==
    /\ NextTask("install")
    /\ LET w == Head(tasks).win
       IN  requests' = IF life[w] = "open"
                       THEN [requests EXCEPT ![w] = Append(@, "install")]
                       ELSE requests
    /\ tasks' = Tail(tasks)
    /\ UNCHANGED <<life, native, bounds, known, moved, Env, canvas, frame,
                   page, address, loading, button, launcher, linked>>

(* A slip: what is installed is what the button offers.                    *)
AppToInstallOffered(w) == button[w]

(* The app OnManifestForInstall installs: the manifest's, asked for again. *)
AppToInstall(w) == Offer(page[w])

(* CreateDirectory fails: nothing is touched.                              *)
InstallFails(p) == UNCHANGED <<launcher, linked>>

(* A slip: the entry is made whatever became of the launcher.              *)
WriteFailsUnseen(p) ==
    /\ launcher' = [launcher EXCEPT ![p] = "torn"]
    /\ linked' = linked \cup {p}

(* WriteLauncher fails: the script is cut short or not executable.         *)
WriteFails(p) ==
    /\ launcher' = [launcher EXCEPT ![p] = "torn"]
    /\ linked' = linked

(* LinkIntoDeskbar fails, before or after it has removed the old entry.    *)
LinkFails(p) ==
    /\ launcher' = [launcher EXCEPT ![p] = "whole"]
    /\ linked' \in {linked, linked \ {p}}

Installs(p) ==
    /\ launcher' = [launcher EXCEPT ![p] = "whole"]
    /\ linked' = linked \cup {p}

(* The answer to an install request, on the UI thread.  The icon, which is *)
(* downloaded afterwards, changes neither file.                            *)
OnManifestForInstall(w) ==
    /\ Asked(w, "install")
    /\ LET p == AppToInstall(w)
       IN  IF p = NoPage
           THEN UNCHANGED <<launcher, linked>>
           ELSE InstallFails(p) \/ WriteFails(p) \/ LinkFails(p)
                    \/ Installs(p)
    /\ requests' = [requests EXCEPT ![w] = Tail(@)]
    /\ UNCHANGED <<page, address, loading, button, windowVars>>

(* The windows of W and their Shells are gone; the files stay.             *)
ShellGone(W) ==
    /\ page' = [w \in Windows |-> IF w \in W THEN NoPage ELSE page[w]]
    /\ address' = [w \in Windows |-> IF w \in W THEN NoPage ELSE address[w]]
    /\ loading' = [w \in Windows |-> w \notin W /\ loading[w]]
    /\ requests' =
          [w \in Windows |-> IF w \in W THEN << >> ELSE requests[w]]
    /\ button' = [w \in Windows |-> IF w \in W THEN NoPage ELSE button[w]]
    /\ UNCHANGED <<launcher, linked>>

-----------------------------------------------------------------------------
ShellTypeOK ==
    /\ page \in [Windows -> Pages \cup {NoPage}]
    /\ address \in [Windows -> Pages \cup {NoPage}]
    /\ loading \in [Windows -> BOOLEAN]
    /\ requests \in [Windows -> Seq({"button", "install"})]
    /\ button \in [Windows -> Installable \cup {NoPage}]
    /\ launcher \in [Pages -> {"none", "torn", "whole"}]
    /\ linked \in SUBSET Pages

(* When a load is over and the page has answered, the install button of a  *)
(* window offers that page's app, or is hidden, whatever answers of pages  *)
(* left meanwhile came in.                                                 *)
ButtonSettles ==
    \A w \in Windows :
        /\ life[w] = "open"
        /\ ~loading[w]
        /\ \A i \in 1 .. Len(requests[w]) : requests[w][i] # "button"
        => button[w] = IF toolbar THEN Offer(page[w]) ELSE NoPage

(* Only the app of a page on display is installed, however late the click  *)
(* is handled ("installing the previous site's app would be a surprise",   *)
(* OnManifestForInstall), ...                                              *)
InstallsWhatIsShown ==
    [][\A p \in Pages : launcher'[p] # launcher[p] =>
          \E w \in Windows : life[w] = "open" /\ page[w] = p]_shellVars

(* ... and Deskbar is only ever given an entry whose launcher is whole.    *)
ListedWhole ==
    [][\A p \in linked' \ linked : launcher'[p] = "whole"]_shellVars

=============================================================================

--------------------------- MODULE BookmarkStore ---------------------------
(***************************************************************************)
(* The bookmarks of haiku_beapi_views.cc: one BookmarkStore per process,   *)
(* its file, and a BookmarksWindow per toolbar that was ever asked for     *)
(* one.  The star is pressed on the looper of the browser window, with     *)
(* that window locked; searching and refilling the list happen on the      *)
(* looper of the BookmarksWindow, with that one locked; the store has a    *)
(* lock of its own.  The process may die between any two writes.           *)
(*                                                                         *)
(* A bookmark is its URL: time and title ride along, and the date groups   *)
(* and the search only choose what is drawn.  A line of the file is a      *)
(* bookmark, and a torn line parses as none.                               *)
(***************************************************************************)
EXTENDS Naturals, Sequences, SequencesExt

CONSTANTS
    Toolbars,    \* the browser windows with a toolbar
    Urls,        \* what can be bookmarked
    Nobody       \* no looper: the lock is free

ASSUME StoreAssumption == Nobody \notin Toolbars \X {"chrome", "list"}

VARIABLES
    file,        \* the settings file's lines
    loaded,      \* loaded_
    items,       \* items_
    storeLock,   \* lock_: the looper that holds it
    listLock,    \* listLock[t]: the looper that holds t's BookmarksWindow
    lists,       \* lists[t]: {} or {what t's BookmarksWindow shows}
    at,          \* at[l]: where looper l is, "idle" outside this code
    url,         \* url[t]: what t's star is adding
    written,     \* how many lines of items_ Save has written
    kept,        \* history: what was starred and saved to the end
    harmed       \* history: a Save was cut short or a read failed

storeVars == <<file, loaded, items, storeLock, listLock, lists, at, url,
               written, kept, harmed>>

Looper == Toolbars \X {"chrome", "list"}

Chrome(t) == <<t, "chrome">>
List(t) == <<t, "list">>

Lines(s) == {s[i] : i \in 1 .. Len(s)}

StoreInit ==
    /\ file = << >>
    /\ loaded = FALSE
    /\ items = << >>
    /\ storeLock = Nobody
    /\ listLock = [t \in Toolbars |-> Nobody]
    /\ lists = [t \in Toolbars |-> {}]
    /\ at = [l \in Looper |-> "idle"]
    /\ url = [t \in Toolbars |-> Nobody]
    /\ written = 0
    /\ kept = {}
    /\ harmed = FALSE

-----------------------------------------------------------------------------
(* The star: BookmarkStore::Add is called for the page the toolbar shows.  *)
Star(t, u) ==
    /\ at[Chrome(t)] = "idle"
    /\ at' = [at EXCEPT ![Chrome(t)] = "add"]
    /\ url' = [url EXCEPT ![t] = u]
    /\ UNCHANGED <<file, loaded, items, storeLock, listLock, lists, written,
                   kept, harmed>>

(* The list button: ShowBookmarks makes the window or refreshes it, and    *)
(* then shows it.                                                          *)
ShowBookmarks(t) ==
    /\ at[Chrome(t)] = "idle"
    /\ at' = [at EXCEPT ![Chrome(t)] =
                 IF lists[t] = {} THEN "reread" ELSE "reopen"]
    /\ UNCHANGED <<file, loaded, items, storeLock, listLock, lists, url,
                   written, kept, harmed>>

(* A key typed into the search field of the BookmarksWindow.               *)
Search(t) ==
    /\ lists[t] # {}
    /\ at[List(t)] = "idle"
    /\ listLock[t] = Nobody
    /\ listLock' = [listLock EXCEPT ![t] = List(t)]
    /\ at' = [at EXCEPT ![List(t)] = "read"]
    /\ UNCHANGED <<file, loaded, items, storeLock, lists, url, written,
                   kept, harmed>>

-----------------------------------------------------------------------------
(* A slip: the file is not read before the first Add.                      *)
ItemsUnread(ok) == items

(* EnsureLoaded: the first caller reads the file; when that fails the list *)
(* is empty and stays so.                                                  *)
ItemsLoaded(ok) ==
    IF loaded THEN items ELSE IF ok THEN file ELSE << >>

ReadFails(ok) == ~loaded /\ ~ok /\ file # << >>

(* A slip: a page bookmarked again is there twice.                         *)
AddedTwice(text, u) == Append(text, u)

(* Add: a page bookmarked again moves to the end; the loop stops at the    *)
(* first entry it finds.                                                   *)
Added(text, u) == Append(RemoveFirst(text, u), u)

(* After the star the toolbar's own BookmarksWindow is refreshed, if there *)
(* is one.                                                                 *)
Rest(t) == IF lists[t] = {} THEN "idle" ELSE "refresh"

(* Add up to Save's open, which erases the file.                           *)
AddBegins(t) ==
    /\ at[Chrome(t)] = "add"
    /\ storeLock = Nobody
    /\ storeLock' = Chrome(t)
    /\ \E ok \in BOOLEAN :
          /\ items' = Added(ItemsLoaded(ok), url[t])
          /\ harmed' = (harmed \/ ReadFails(ok))
    /\ loaded' = TRUE
    /\ file' = << >>
    /\ written' = 0
    /\ at' = [at EXCEPT ![Chrome(t)] = "save"]
    /\ UNCHANGED <<listLock, lists, url, kept>>

(* ... or all of it, when Save cannot open the file and gives up in        *)
(* silence: the file stays as it is and the bookmark is in memory only ... *)
SaveFailsToOpen(t) ==
    /\ at[Chrome(t)] = "add"
    /\ storeLock = Nobody
    /\ \E ok \in BOOLEAN :
          /\ items' = Added(ItemsLoaded(ok), url[t])
          /\ harmed' = (harmed \/ ReadFails(ok))
    /\ loaded' = TRUE
    /\ at' = [at EXCEPT ![Chrome(t)] = Rest(t)]
    /\ UNCHANGED <<file, storeLock, listLock, lists, url, written, kept>>

(* ... one line written ...                                                *)
SaveLine(t) ==
    /\ at[Chrome(t)] = "save"
    /\ written < Len(items)
    /\ file' = Append(file, items[written + 1])
    /\ written' = written + 1
    /\ UNCHANGED <<loaded, items, storeLock, listLock, lists, at, url, kept,
                   harmed>>

(* ... or not, the disk being full: Write's result is not looked at ...    *)
SaveLineFails(t) ==
    /\ at[Chrome(t)] = "save"
    /\ written < Len(items)
    /\ written' = written + 1
    /\ harmed' = TRUE
    /\ UNCHANGED <<file, loaded, items, storeLock, listLock, lists, at, url,
                   kept>>

(* A slip: the list is refreshed with the store still locked.              *)
AddEndsLocked(t) ==
    /\ at[Chrome(t)] = "save"
    /\ written = Len(items)
    /\ kept' = kept \cup {url[t]}
    /\ storeLock' = IF lists[t] = {} THEN Nobody ELSE storeLock
    /\ at' = [at EXCEPT ![Chrome(t)] = Rest(t)]
    /\ UNCHANGED <<file, loaded, items, listLock, lists, url, written,
                   harmed>>

(* ... and the end of Add.                                                 *)
AddEnds(t) ==
    /\ at[Chrome(t)] = "save"
    /\ written = Len(items)
    /\ kept' = kept \cup {url[t]}
    /\ storeLock' = Nobody
    /\ at' = [at EXCEPT ![Chrome(t)] = Rest(t)]
    /\ UNCHANGED <<file, loaded, items, listLock, lists, url, written,
                   harmed>>

(* Refresh locks the BookmarksWindow from the browser window's looper.     *)
Refresh(t) ==
    /\ at[Chrome(t)] \in {"refresh", "reopen"}
    /\ listLock[t] = Nobody
    /\ listLock' = [listLock EXCEPT ![t] = Chrome(t)]
    /\ at' = [at EXCEPT ![Chrome(t)] = IF @ = "refresh" THEN "read"
                                       ELSE "reread"]
    /\ UNCHANGED <<file, loaded, items, storeLock, lists, url, written,
                   kept, harmed>>

(* Rebuild on looper l: the list becomes what All() returns.               *)
Rebuild(t, l) ==
    /\ at[l] \in {"read", "reread"}
    /\ storeLock \in {Nobody, l}
    /\ \E ok \in BOOLEAN :
          /\ items' = ItemsLoaded(ok)
          /\ lists' = [lists EXCEPT ![t] = {Lines(ItemsLoaded(ok))}]
          /\ harmed' = (harmed \/ ReadFails(ok))
    /\ loaded' = TRUE
    /\ storeLock' = Nobody
    /\ listLock' = [listLock EXCEPT ![t] = IF @ = l THEN Nobody ELSE @]
    /\ at' = [at EXCEPT ![l] = IF @ = "read" THEN "idle" ELSE "show"]
    /\ UNCHANGED <<file, url, written, kept>>

(* The end of ShowBookmarks: the BookmarksWindow is locked once more, for  *)
(* as long as it takes to show it.                                         *)
ShowList(t) ==
    /\ at[Chrome(t)] = "show"
    /\ listLock[t] = Nobody
    /\ at' = [at EXCEPT ![Chrome(t)] = "idle"]
    /\ UNCHANGED <<file, loaded, items, storeLock, listLock, lists, url,
                   written, kept, harmed>>

(* The process dies or is killed: what is left is the file.                *)
StoreDies ==
    /\ harmed' = (harmed \/ \E t \in Toolbars : at[Chrome(t)] = "save")
    /\ loaded' = FALSE
    /\ items' = << >>
    /\ storeLock' = Nobody
    /\ listLock' = [t \in Toolbars |-> Nobody]
    /\ lists' = [t \in Toolbars |-> {}]
    /\ at' = [l \in Looper |-> "idle"]
    /\ url' = [t \in Toolbars |-> Nobody]
    /\ written' = 0
    /\ UNCHANGED <<file, kept>>

-----------------------------------------------------------------------------
Busy == {"idle", "add", "save", "refresh", "read", "reopen", "reread", "show"}

StoreTypeOK ==
    /\ file \in Seq(Urls)
    /\ loaded \in BOOLEAN
    /\ items \in Seq(Urls)
    /\ storeLock \in Looper \cup {Nobody}
    /\ listLock \in [Toolbars -> Looper \cup {Nobody}]
    /\ lists \in [Toolbars -> SUBSET SUBSET Urls]
    /\ at \in [Looper -> Busy]
    /\ url \in [Toolbars -> Urls \cup {Nobody}]
    /\ written \in Nat
    /\ kept \in SUBSET Urls
    /\ harmed \in BOOLEAN

(* A bookmark that was saved to the end survives everything after it, and  *)
(* a relaunch ("both bookmarks survive relaunch", docs/browser-ui-plan.md),*)
(* as long as no Save was cut short and no read of the file failed; and    *)
(* whichever window's star added it, no page is listed twice.              *)
KeptSurvive ==
    /\ ~harmed /\ storeLock = Nobody => kept \subseteq Lines(file)
    /\ IsInjective(items) /\ IsInjective(file)

(* A press of the star or of the list button is dealt with: the loopers    *)
(* of a browser window and of its BookmarksWindow, which take the store's  *)
(* lock and each other's, never wait for each other.                       *)
PressEnds ==
    \A t \in Toolbars : at[Chrome(t)] # "idle" ~> at[Chrome(t)] = "idle"

=============================================================================
